---- MODULE Spec2Model ----
(***************************************************************************)
(* Model of coding-agent-sdk.                                              *)
(*                                                                         *)
(* Part 1: the Session streaming state machine (client/session.ts, the     *)
(* revision with connection-closure handling).  Every callback the event   *)
(* loop can run is one action: the notification handler, the prompt RPC's  *)
(* then/catch callbacks, the connection signal's abort listener, and the   *)
(* resumptions of the prompt() generator after each of its awaits and      *)
(* yields.                                                                 *)
(*                                                                         *)
(* Part 2: backend discovery (utils/auto-detect.ts), once as the outcome   *)
(* of a whole call and once probe by probe with processes and timers.      *)
(*                                                                         *)
(* Part 3: a backend driver generator with its processes and its consumer  *)
(* (backends/gemini.ts).                                                   *)
(*                                                                         *)
(* Part 4: the query orchestrator and its result object (index.ts).        *)
(***************************************************************************)
EXTENDS Integers, Sequences, FiniteSets, TLC

\* ------------------------------------------------------------------ bounds
MaxTurns == 2
MaxUpdates == 3
MaxDetectCalls == 2
MaxAvailCalls == 1
MaxKnownPaths == 2
MaxLines == 2
MaxEvents == 2

Turns == 1..MaxTurns
Null == 0
StopReasons == {"end_turn", "cancelled"}
Backends == <<"claude", "codex", "gemini">>
BackendSet == {Backends[i] : i \in 1..Len(Backends)}
Strategies == {"known_path", "which", "command_v", "direct"}

VARIABLES
    \* ---- Session fields
    pendingUpdates,     \* SessionUpdate[] buffer
    updateResolver,     \* Null, or the turn whose waitForUpdate promise it resolves
    promptComplete,
    lastStopReason,
    connectionClosed,
    \* ---- one prompt() generator per turn
    pc,                 \* position of the generator body
    waitState,          \* state of the promise returned by waitForUpdate
    waitVal,            \* value that promise was resolved with (Null = null)
    yieldVal,           \* value handed to the consumer by the current yield
    result,             \* return value (a stop reason) or the error thrown
    rpc,                \* state of promptPromise (the RPC chained with then/catch)
    collected,          \* the consumer loop's updates array (promptAndCollect)
    collectRet,         \* what the consumer loop ends with (promptAndCollect's return)
    \* ---- connection / remote agent
    conn,               \* "open" | "closed": the transport itself
    nextUpd,            \* next notification the agent will send
    lastOp,             \* the last caller operation and its outcome
    \* ---- history (not read by the program)
    yielded,            \* what each generator has yielded so far
    arrived,            \* notifications handled while the turn's RPC was pending
    late,               \* a notification was handled after the turn's RPC settled
    rpcResp,            \* stop reason carried by the RPC response
    rpcCause,           \* why the RPC rejected: "error" | "closed"
    abortYielded,       \* Len(yielded) when the abort event found the consumer blocked
    turnStart,          \* number of the next notification when the turn's prompt() began
    \* ---- discovery
    probe,              \* probe[b][s]: strategy s finds a runnable binary for b
    cred,               \* cred[b]: b's credential variable is non-empty
    detectLog,          \* outcome (and console.warn) of each detectBackend() call so far
    availLog,           \* argument and return value of each isBackendAvailable() call so far
    \* ---- one discovery call, probe by probe
    pOp,                \* "none" | "isBackendAvailable" | "detectBackend"
    pIdx,               \* index in Backends of the backend being probed
    pStage,             \* position in isBinaryAvailable()
    pKnown,             \* index of the known path being verified
    pPromise,           \* the awaited probe promise: "none" | "pending" | "resolved"
    pVal,               \* the value that promise resolved with
    pChild,             \* the process spawned for the current probe
    pTimer,             \* the setTimeout of the current probe
    pEmitted,           \* some probe process of this call emitted exit or error
    pFound,             \* detectBackend's availableBackends
    pRet,               \* what the call returned or threw
    \* ---- one backend driver generator and its processes
    dpc,                \* position of the driver generator body
    dReq,               \* the consumer's outstanding request: "none" | "next"
    dProbe,             \* the --version process of check<Backend>CLI
    dProbePromise,      \* the promise check<Backend>CLI returned
    dChild,             \* the backend process: "none" | "running" | "exited"
    dKilled,            \* child.killed: a termination signal has been sent
    dExitListener,      \* the driver's child.on("exit") listener is registered
    dExitObserved,      \* that listener has run
    dStdout,            \* the child's standard output: "none" | "open" | "ended"
    dLines,             \* lines readline holds that the loop has not taken yet
    dSent,              \* number of lines the process has written
    dYielded,           \* what the generator has yielded so far
    dPending,           \* unified events of the current line not yet yielded
    dTaken,             \* number of lines the for await loop has taken
    dWritten,           \* every line the process has written, in order
    dTrace,             \* origin <<line, index>> of each yielded event
    \* ---- one query() call and its result object
    qRes,               \* what query() resolved or rejected with
    sessionId,          \* query's local sessionId ("" = undefined)
    eventsBuffer,       \* query's eventsBuffer
    qDone,              \* result.events has reported done
    qRead,              \* the value the last read of result.sessionId returned
    qLast,              \* the caller's last step on the result object
    \* ---- one session/request_permission call on the client handler
    rParams,            \* params.options of the request being answered
    rAuto,              \* options.autoApprove
    rHandler,           \* options.onPermissionRequest and what it does
    rAnswer,            \* what requestPermission resolved or rejected with
    \* ---- one backend stream's raw events going through its mapper
    mBackend,           \* whose mapper is in use
    mIn,                \* the raw event of the last call
    mOut,               \* what the last call returned or threw
    mLog,               \* every unified event the calls have returned, in order
    mCount,             \* number of calls so far
    mLife,              \* per item id: where the raw stream is in its lifecycle
    \* ---- one CodingAgentClient and the Session objects made from it
    connection,         \* client.connection: "null" | "set"
    cInit,              \* the last connect(): "none" | "pending" | "ok" | "failed"
    sessionUpdateHandler, \* 0 (null), or the Session object whose closure is registered
    cSessions,          \* sessionId of each Session object, in order of creation
    cNotes,             \* each notification received: its sessionId and who handled it
    cLast               \* the caller's last newSession()/loadSession() and its outcome

sessVars == <<pendingUpdates, updateResolver, promptComplete, lastStopReason,
              connectionClosed, pc, waitState, waitVal, yieldVal, result, rpc,
              collected, collectRet, conn, nextUpd, lastOp,
              yielded, arrived, late, rpcResp, rpcCause, abortYielded, turnStart>>
detVars == <<probe, cred, detectLog, availLog>>
stepVars == <<pOp, pIdx, pStage, pKnown, pPromise, pVal, pChild, pTimer,
              pEmitted, pFound, pRet>>
drvVars == <<dpc, dReq, dProbe, dProbePromise, dChild, dKilled, dExitListener,
             dExitObserved, dStdout, dLines, dSent, dYielded,
             dPending, dTaken, dWritten, dTrace>>
qryVars == <<qRes, sessionId, eventsBuffer, qDone, qRead, qLast>>
permVars == <<rParams, rAuto, rHandler, rAnswer>>
mapVars == <<mBackend, mIn, mOut, mLog, mCount, mLife>>
clVars == <<connection, cInit, sessionUpdateHandler, cSessions, cNotes, cLast>>
outsideSession == <<detVars, stepVars, drvVars, qryVars, permVars, mapVars, clVars>>
vars == <<sessVars, outsideSession>>

\* =================================================================== Session

NoOp == [op |-> "none", outcome |-> "none", closed |-> FALSE]

SessionInit ==
    /\ pendingUpdates = <<>>
    /\ updateResolver = Null
    /\ promptComplete = FALSE
    /\ lastStopReason = "end_turn"
    /\ connectionClosed = FALSE
    /\ pc = [g \in Turns |-> "unused"]
    /\ waitState = [g \in Turns |-> "none"]
    /\ waitVal = [g \in Turns |-> Null]
    /\ yieldVal = [g \in Turns |-> Null]
    /\ result = [g \in Turns |-> "none"]
    /\ rpc = [g \in Turns |-> "none"]
    /\ collected = [g \in Turns |-> <<>>]
    /\ collectRet = [g \in Turns |-> [kind |-> "none"]]
    /\ conn = "open"
    /\ nextUpd = 1
    /\ lastOp = NoOp
    /\ yielded = [g \in Turns |-> <<>>]
    /\ arrived = [g \in Turns |-> <<>>]
    /\ late = [g \in Turns |-> FALSE]
    /\ rpcResp = [g \in Turns |-> "none"]
    /\ rpcCause = [g \in Turns |-> "none"]
    /\ abortYielded = [g \in Turns |-> -1]
    /\ turnStart = [g \in Turns |-> 0]

\* A generator whose stream has been begun and is not exhausted.
Active(g) == pc[g] \in {"await_update", "yield_loop", "yield_drain", "await_rpc"}
Finished(g) == pc[g] \in {"done", "thrown"}

\* Calling the resolve function held in updateResolver (if any) with value v.
\* Resolving an already settled promise has no effect.
ResolveWaiter(ws, wv, v) ==
    IF updateResolver # Null /\ ws[updateResolver] = "pending"
    THEN [ws |-> [ws EXCEPT ![updateResolver] = "resolved"],
          wv |-> [wv EXCEPT ![updateResolver] = v]]
    ELSE [ws |-> ws, wv |-> wv]

\* waitForUpdate(): what the returned promise is, and what it does to the
\* buffer, given the session fields at the time of the call.
waitForUpdate(closed, pend, complete) ==
    IF closed THEN [state |-> "resolved", val |-> Null, pend |-> pend, reg |-> FALSE]
    ELSE IF Len(pend) > 0
         THEN [state |-> "resolved", val |-> Head(pend), pend |-> Tail(pend), reg |-> FALSE]
    ELSE IF complete
         THEN [state |-> "resolved", val |-> Null, pend |-> pend, reg |-> FALSE]
    ELSE [state |-> "pending", val |-> Null, pend |-> pend, reg |-> TRUE]

\* The generator body from the top of the while loop to `await waitForUpdate()`.
CallWait(g, closed, pend, complete) ==
    LET w == waitForUpdate(closed, pend, complete) IN
    /\ pendingUpdates' = w.pend
    /\ updateResolver' = IF w.reg THEN g ELSE updateResolver
    /\ waitState' = [waitState EXCEPT ![g] = w.state]
    /\ waitVal' = [waitVal EXCEPT ![g] = w.val]
    /\ pc' = [pc EXCEPT ![g] = "await_update"]

\* The code after the while loop: await promptPromise unless closed, then return.
AfterLoop(g) ==
    IF ~connectionClosed
    THEN /\ pc' = [pc EXCEPT ![g] = "await_rpc"]
         /\ UNCHANGED result
    ELSE /\ pc' = [pc EXCEPT ![g] = "done"]
         /\ result' = [result EXCEPT ![g] = lastStopReason]

\* The drain loop: yield the head of the buffer, or leave the loop.
Drain(g) ==
    IF Len(pendingUpdates) > 0
    THEN /\ pendingUpdates' = Tail(pendingUpdates)
         /\ yieldVal' = [yieldVal EXCEPT ![g] = Head(pendingUpdates)]
         /\ yielded' = [yielded EXCEPT ![g] = Append(@, Head(pendingUpdates))]
         /\ pc' = [pc EXCEPT ![g] = "yield_drain"]
         /\ UNCHANGED result
    ELSE /\ AfterLoop(g)
         /\ UNCHANGED <<pendingUpdates, yieldVal, yielded>>

\* History of exhausted streams is dropped when a later prompt() begins: what
\* is claimed of a stream is evaluated up to that point.
Retire(f, init) == [h \in Turns |-> IF pc[h] \in {"done", "thrown"} THEN init ELSE f[h]]

\* this.pendingUpdates = []  at the start of prompt()
freshBuffer_Kept(pend) == pend

freshBuffer(pend) == <<>>

\* prompt(): the first next() runs the body up to the first await.
\* overlap = FALSE restricts the caller to one un-exhausted stream at a time
\* (the previous consumer loop has ended before prompt() is called again).
PromptBegin(g, overlap) ==
    LET w == waitForUpdate(connectionClosed, freshBuffer(pendingUpdates), FALSE) IN
    /\ pc[g] = "unused"
    /\ \A h \in Turns : h < g => pc[h] # "unused"
    /\ overlap \/ \A h \in Turns : pc[h] \in {"done", "thrown"} => collectRet[h].kind # "none"
    /\ overlap \/ \A h \in Turns : pc[h] \notin {"await_update", "yield_loop", "yield_drain", "await_rpc"}
    /\ IF connectionClosed
       THEN /\ pc' = [Retire(pc, "retired") EXCEPT ![g] = "thrown"]
            /\ result' = [Retire(result, "none") EXCEPT ![g] = "ConnectionClosedError"]
            /\ lastOp' = [op |-> "prompt", outcome |-> "ConnectionClosedError",
                          closed |-> connectionClosed]
            /\ rpc' = Retire(rpc, "none")
            /\ waitState' = Retire(waitState, "none")
            /\ waitVal' = Retire(waitVal, Null)
            /\ UNCHANGED <<pendingUpdates, updateResolver, promptComplete>>
       ELSE /\ promptComplete' = FALSE
            /\ rpc' = [Retire(rpc, "none") EXCEPT ![g] = "pending"]
            /\ pendingUpdates' = w.pend
            /\ updateResolver' = IF w.reg THEN g ELSE updateResolver
            /\ waitState' = [Retire(waitState, "none") EXCEPT ![g] = w.state]
            /\ waitVal' = [Retire(waitVal, Null) EXCEPT ![g] = w.val]
            /\ pc' = [Retire(pc, "retired") EXCEPT ![g] = "await_update"]
            /\ result' = Retire(result, "none")
            /\ lastOp' = [op |-> "prompt", outcome |-> "sent",
                          closed |-> connectionClosed]
    /\ yieldVal' = Retire(yieldVal, Null)
    /\ collected' = Retire(collected, <<>>)
    /\ collectRet' = Retire(collectRet, [kind |-> "none"])
    /\ yielded' = Retire(yielded, <<>>)
    /\ arrived' = Retire(arrived, <<>>)
    /\ late' = Retire(late, FALSE)
    /\ rpcResp' = Retire(rpcResp, "none")
    /\ rpcCause' = Retire(rpcCause, "none")
    /\ abortYielded' = Retire(abortYielded, -1)
    /\ turnStart' = [Retire(turnStart, 0) EXCEPT ![g] = nextUpd]
    /\ UNCHANGED <<lastStopReason, connectionClosed, conn, nextUpd>>
    /\ UNCHANGED outsideSession

PromptStart(g) == PromptBegin(g, FALSE)

\* A prompt() begun while an earlier stream of the session is not exhausted.
PromptOverlap(g) ==
    /\ \E h \in Turns : Active(h)
    /\ PromptBegin(g, TRUE)

\* The generator resumes after `await this.waitForUpdate()`.
ResumeUpdate(g) ==
    /\ pc[g] = "await_update"
    /\ waitState[g] = "resolved"
    /\ waitState' = [waitState EXCEPT ![g] = "none"]
    /\ IF waitVal[g] = Null \/ promptComplete
       THEN Drain(g)
       ELSE /\ yieldVal' = [yieldVal EXCEPT ![g] = waitVal[g]]
            /\ yielded' = [yielded EXCEPT ![g] = Append(@, waitVal[g])]
            /\ pc' = [pc EXCEPT ![g] = "yield_loop"]
            /\ UNCHANGED <<pendingUpdates, result>>
    /\ UNCHANGED <<updateResolver, promptComplete, lastStopReason,
                   connectionClosed, waitVal, rpc, collected, collectRet,
                   conn, nextUpd, lastOp, arrived, late, rpcResp,
                   rpcCause, abortYielded>>
    /\ UNCHANGED turnStart
    /\ UNCHANGED outsideSession

\* updates.push(result.value) in promptAndCollect's loop (a for-await consumer
\* that records what it receives runs the same loop).
Push(upds, v) == Append(upds, v)

\* The consumer takes the yielded value and calls next() again.
ConsumerNext(g) ==
    /\ pc[g] \in {"yield_loop", "yield_drain"}
    /\ collected' = [collected EXCEPT ![g] = Push(@, yieldVal[g])]
    /\ IF pc[g] = "yield_loop"
       THEN /\ CallWait(g, connectionClosed, pendingUpdates, promptComplete)
            /\ UNCHANGED <<yieldVal, yielded, result>>
       ELSE /\ Drain(g)
            /\ UNCHANGED <<updateResolver, waitState, waitVal>>
    /\ UNCHANGED <<promptComplete, lastStopReason, connectionClosed, rpc,
                   collectRet, conn, nextUpd, lastOp, arrived, late,
                   rpcResp, rpcCause, abortYielded>>
    /\ UNCHANGED turnStart
    /\ UNCHANGED outsideSession

\* The generator resumes after `await promptPromise`.
ResumeRpc(g) ==
    /\ pc[g] = "await_rpc"
    /\ rpc[g] \in {"fulfilled", "rejected"}
    /\ IF rpc[g] = "rejected" /\ ~connectionClosed
       THEN /\ pc' = [pc EXCEPT ![g] = "thrown"]
            /\ result' = [result EXCEPT ![g] = "ConnectionClosedError"]
       ELSE /\ pc' = [pc EXCEPT ![g] = "done"]
            /\ result' = [result EXCEPT ![g] = lastStopReason]
    /\ UNCHANGED <<pendingUpdates, updateResolver, promptComplete,
                   lastStopReason, connectionClosed, waitState, waitVal,
                   yieldVal, rpc, collected, collectRet, conn,
                   nextUpd, lastOp, yielded, arrived, late, rpcResp, rpcCause,
                   abortYielded>>
    /\ UNCHANGED turnStart
    /\ UNCHANGED outsideSession

\* The consumer loop ends once generator.next() reports done or rejects:
\* promptAndCollect returns { updates, stopReason } or rejects.
CollectReturn(g) ==
    /\ Finished(g)
    /\ collectRet[g].kind = "none"
    /\ collectRet' = [collectRet EXCEPT ![g] =
         IF pc[g] = "done"
         THEN [kind |-> "ok", updates |-> collected[g], stopReason |-> result[g]]
         ELSE [kind |-> "error", error |-> result[g]]]
    /\ UNCHANGED <<pendingUpdates, updateResolver, promptComplete,
                   lastStopReason, connectionClosed, pc, waitState, waitVal,
                   yieldVal, result, rpc, collected, conn, nextUpd,
                   lastOp, yielded, arrived, late, rpcResp, rpcCause,
                   abortYielded>>
    /\ UNCHANGED turnStart
    /\ UNCHANGED outsideSession

\* Variant of handleUpdate that puts a buffered update at the front.
handleUpdate_Unshift(u) ==
    LET r == ResolveWaiter(waitState, waitVal, u) IN
    IF updateResolver # Null
    THEN /\ waitState' = r.ws
         /\ waitVal' = r.wv
         /\ updateResolver' = Null
         /\ UNCHANGED pendingUpdates
    ELSE /\ pendingUpdates' = <<u>> \o pendingUpdates
         /\ UNCHANGED <<waitState, waitVal, updateResolver>>

\* handleUpdate(update), called by the registered notification handler.
handleUpdate(u) ==
    LET r == ResolveWaiter(waitState, waitVal, u) IN
    IF updateResolver # Null
    THEN /\ waitState' = r.ws
         /\ waitVal' = r.wv
         /\ updateResolver' = Null
         /\ UNCHANGED pendingUpdates
    ELSE /\ pendingUpdates' = Append(pendingUpdates, u)
         /\ UNCHANGED <<waitState, waitVal, updateResolver>>

\* The agent sends a session/update notification for this session.
Notify ==
    /\ conn = "open"
    /\ nextUpd <= MaxUpdates
    /\ handleUpdate(nextUpd)
    /\ nextUpd' = nextUpd + 1
    /\ arrived' = [g \in Turns |->
                     IF rpc[g] = "pending" THEN Append(arrived[g], nextUpd)
                     ELSE arrived[g]]
    /\ late' = [g \in Turns |-> late[g] \/ (Active(g) /\ rpc[g] # "pending")]
    /\ UNCHANGED <<promptComplete, lastStopReason, connectionClosed, pc,
                   yieldVal, result, rpc, collected, collectRet, conn,
                   lastOp, yielded, rpcResp, rpcCause, abortYielded>>
    /\ UNCHANGED turnStart
    /\ UNCHANGED outsideSession

\* Variant of RpcResolve that completes the turn without recording the
\* response's stop reason.
RpcResolve_KeepsStopReason(g, r) ==
    LET w == ResolveWaiter(waitState, waitVal, Null) IN
    /\ rpc[g] = "pending"
    /\ conn = "open"
    /\ promptComplete' = TRUE
    /\ waitState' = w.ws
    /\ waitVal' = w.wv
    /\ updateResolver' = Null
    /\ rpc' = [rpc EXCEPT ![g] = "fulfilled"]
    /\ rpcResp' = [rpcResp EXCEPT ![g] = r]
    /\ UNCHANGED <<pendingUpdates, lastStopReason, connectionClosed, pc,
                   yieldVal, result, collected, collectRet, conn, nextUpd,
                   lastOp, yielded, arrived, late, rpcCause, abortYielded>>
    /\ UNCHANGED turnStart
    /\ UNCHANGED outsideSession

\* The .then callback of connection.prompt(): the RPC resolved with stop reason r.
RpcResolve(g, r) ==
    LET w == ResolveWaiter(waitState, waitVal, Null) IN
    /\ rpc[g] = "pending"
    /\ conn = "open"
    /\ lastStopReason' = r
    /\ promptComplete' = TRUE
    /\ waitState' = w.ws
    /\ waitVal' = w.wv
    /\ updateResolver' = Null
    /\ rpc' = [rpc EXCEPT ![g] = "fulfilled"]
    /\ rpcResp' = [rpcResp EXCEPT ![g] = r]
    /\ UNCHANGED <<pendingUpdates, connectionClosed, pc, yieldVal, result,
                   collected, collectRet, conn, nextUpd, lastOp,
                   yielded, arrived, late, rpcCause, abortYielded>>
    /\ UNCHANGED turnStart
    /\ UNCHANGED outsideSession

\* The .catch callback of connection.prompt(): the RPC rejected.  It rethrows
\* (promptPromise rejects) unless connectionClosed is already set.
RpcReject(g, cause) ==
    LET w == ResolveWaiter(waitState, waitVal, Null) IN
    /\ rpc[g] = "pending"
    /\ (cause = "closed") <=> (conn = "closed")
    /\ promptComplete' = TRUE
    /\ waitState' = w.ws
    /\ waitVal' = w.wv
    /\ updateResolver' = Null
    /\ rpc' = [rpc EXCEPT ![g] = IF connectionClosed THEN "fulfilled" ELSE "rejected"]
    /\ rpcCause' = [rpcCause EXCEPT ![g] = cause]
    /\ UNCHANGED <<pendingUpdates, lastStopReason, connectionClosed, pc,
                   yieldVal, result, collected, collectRet, conn,
                   nextUpd, lastOp, yielded, arrived, late, rpcResp,
                   abortYielded>>
    /\ UNCHANGED turnStart
    /\ UNCHANGED outsideSession

\* The transport closes (agent process exits, stream ends).
ConnClose ==
    /\ conn = "open"
    /\ conn' = "closed"
    /\ UNCHANGED <<pendingUpdates, updateResolver, promptComplete,
                   lastStopReason, connectionClosed, pc, waitState, waitVal,
                   yieldVal, result, rpc, collected, collectRet,
                   nextUpd, lastOp, yielded, arrived, late, rpcResp, rpcCause,
                   abortYielded>>
    /\ UNCHANGED turnStart
    /\ UNCHANGED outsideSession

\* Variant of AbortEvent that marks the session closed without calling the
\* pending resolver.
AbortEvent_NoUnblock ==
    /\ conn = "closed"
    /\ ~connectionClosed
    /\ connectionClosed' = TRUE
    /\ promptComplete' = TRUE
    /\ abortYielded' = [g \in Turns |->
         IF /\ pc[g] = "await_update" /\ waitState[g] = "pending"
            /\ pendingUpdates = <<>>
         THEN Len(yielded[g]) ELSE abortYielded[g]]
    /\ UNCHANGED <<pendingUpdates, updateResolver, waitState, waitVal,
                   lastStopReason, pc, yieldVal, result, rpc, collected,
                   collectRet, conn, nextUpd, lastOp, yielded, arrived, late,
                   rpcResp, rpcCause>>
    /\ UNCHANGED turnStart
    /\ UNCHANGED outsideSession

\* The "abort" listener registered on connection.signal in the constructor.
AbortEvent ==
    LET w == ResolveWaiter(waitState, waitVal, Null) IN
    /\ conn = "closed"
    /\ ~connectionClosed
    /\ connectionClosed' = TRUE
    /\ promptComplete' = TRUE
    /\ waitState' = w.ws
    /\ waitVal' = w.wv
    /\ updateResolver' = Null
    /\ abortYielded' = [g \in Turns |->
         IF /\ pc[g] = "await_update" /\ waitState[g] = "pending"
            /\ pendingUpdates = <<>>
         THEN Len(yielded[g]) ELSE abortYielded[g]]
    /\ UNCHANGED <<pendingUpdates, lastStopReason, pc, yieldVal, result, rpc,
                   collected, collectRet, conn, nextUpd, lastOp,
                   yielded, arrived, late, rpcResp, rpcCause>>
    /\ UNCHANGED turnStart
    /\ UNCHANGED outsideSession

\* Variant of cancel() that also completes the turn locally.
Cancel_EndsStream ==
    LET w == ResolveWaiter(waitState, waitVal, Null) IN
    /\ lastOp' = [op |-> "cancel", closed |-> connectionClosed,
                  outcome |-> IF connectionClosed THEN "returned" ELSE "sent"]
    /\ promptComplete' = TRUE
    /\ waitState' = w.ws
    /\ waitVal' = w.wv
    /\ updateResolver' = Null
    /\ UNCHANGED <<pendingUpdates, lastStopReason, connectionClosed, pc,
                   yieldVal, result, rpc, collected, collectRet, conn,
                   nextUpd, yielded, arrived, late, rpcResp, rpcCause,
                   abortYielded>>
    /\ UNCHANGED turnStart
    /\ UNCHANGED outsideSession

\* cancel()
Cancel ==
    /\ lastOp' = [op |-> "cancel", closed |-> connectionClosed,
                  outcome |-> IF connectionClosed THEN "returned" ELSE "sent"]
    /\ UNCHANGED <<pendingUpdates, updateResolver, promptComplete,
                   lastStopReason, connectionClosed, pc, waitState, waitVal,
                   yieldVal, result, rpc, collected, collectRet, conn,
                   nextUpd, yielded, arrived, late, rpcResp, rpcCause,
                   abortYielded>>
    /\ UNCHANGED turnStart
    /\ UNCHANGED outsideSession

\* Variant of setMode() without the connectionClosed check.
SetMode_NoClosedCheck ==
    /\ lastOp' = [op |-> "setMode", closed |-> connectionClosed,
                  outcome |-> "sent"]
    /\ UNCHANGED <<pendingUpdates, updateResolver, promptComplete,
                   lastStopReason, connectionClosed, pc, waitState, waitVal,
                   yieldVal, result, rpc, collected, collectRet, conn,
                   nextUpd, yielded, arrived, late, rpcResp, rpcCause,
                   abortYielded>>
    /\ UNCHANGED turnStart
    /\ UNCHANGED outsideSession

\* setMode(modeId)
SetMode ==
    /\ lastOp' = [op |-> "setMode", closed |-> connectionClosed,
                  outcome |-> IF connectionClosed THEN "ConnectionClosedError"
                              ELSE "sent"]
    /\ UNCHANGED <<pendingUpdates, updateResolver, promptComplete,
                   lastStopReason, connectionClosed, pc, waitState, waitVal,
                   yieldVal, result, rpc, collected, collectRet, conn,
                   nextUpd, yielded, arrived, late, rpcResp, rpcCause,
                   abortYielded>>
    /\ UNCHANGED turnStart
    /\ UNCHANGED outsideSession

\* ================================================================= Discovery

\* isBinaryAvailable(binaryName): the cascade of strategies, stopping at the
\* first one that finds a binary whose --version run exits 0.
isBinaryAvailable(b) ==
    IF probe[b]["known_path"] THEN TRUE
    ELSE IF probe[b]["which"] THEN TRUE
    ELSE IF probe[b]["command_v"] THEN TRUE
    ELSE probe[b]["direct"]

\* getApiKey(backend): the key, or the Error thrown when the variable is unset.
getApiKey(b) == IF cred[b] THEN [kind |-> "key", backend |-> b]
                ELSE [kind |-> "Error", backend |-> b]

\* Variant of isBackendAvailable() that answers from the binary alone.
isBackendAvailable_BinaryOnly(b) == isBinaryAvailable(b)
\* isBackendAvailable(backend)
isBackendAvailable(b) == IF ~isBinaryAvailable(b) THEN FALSE ELSE cred[b]

\* Variant of detectBackend() that rejects when several binaries are found.
detectBackend_ThrowsOnMultiple ==
    LET availableBackends == SelectSeq(Backends, isBinaryAvailable) IN
    IF Len(availableBackends) = 0
    THEN [kind |-> "NoBackendFoundError", reason |-> "no_binaries",
          backend |-> "none", warned |-> <<>>]
    ELSE IF Len(availableBackends) > 1
    THEN [kind |-> "MultipleBackendsFoundError", reason |-> "ambiguous",
          backend |-> "none", warned |-> <<>>]
    ELSE IF getApiKey(availableBackends[1]).kind = "Error"
    THEN [kind |-> "NoBackendFoundError", reason |-> "key_missing",
          backend |-> availableBackends[1], warned |-> <<>>]
    ELSE [kind |-> "ok", reason |-> "none", backend |-> availableBackends[1],
          warned |-> <<>>]

\* detectBackend(): what the call returns or throws, and the backends its
\* console.warn names (<<>> when it does not warn).
detectBackend ==
    LET availableBackends == SelectSeq(Backends, isBinaryAvailable) IN
    IF Len(availableBackends) = 0
    THEN [kind |-> "NoBackendFoundError", reason |-> "no_binaries",
          backend |-> "none", warned |-> <<>>]
    ELSE LET backend == availableBackends[1]
             warned == IF Len(availableBackends) > 1 THEN availableBackends ELSE <<>>
         IN IF getApiKey(backend).kind = "Error"
            THEN [kind |-> "NoBackendFoundError", reason |-> "key_missing",
                  backend |-> backend, warned |-> warned]
            ELSE [kind |-> "ok", reason |-> "none", backend |-> backend,
                  warned |-> warned]

\* A caller invokes detectBackend() (query() without options.backend does).
Detect ==
    /\ Len(detectLog) < MaxDetectCalls
    /\ detectLog' = Append(detectLog, detectBackend)
    /\ UNCHANGED <<probe, cred, availLog>>
    /\ UNCHANGED <<sessVars, stepVars, drvVars, qryVars, permVars, mapVars, clVars>>

DetectIdle ==
    /\ probe = [b \in BackendSet |-> [s \in Strategies |-> FALSE]]
    /\ cred = [b \in BackendSet |-> FALSE]
    /\ detectLog = <<>>
    /\ availLog = <<>>

\* The name of the credential variable getApiKey() and isBackendAvailable()
\* read for each backend.
envVar(b) ==
    CASE b = "claude" -> "ANTHROPIC_API_KEY"
      [] b = "codex" -> "OPENAI_API_KEY"
      [] b = "gemini" -> "GEMINI_API_KEY"

\* Variant in which both failures are thrown as `new NoBackendFoundError()`,
\* with the constructor's default message.
detectMessage_Default(r) ==
    IF r.kind = "ok" THEN <<>>
    ELSE <<"No backend could be auto-detected. Please set one of: ANTHROPIC_API_KEY, OPENAI_API_KEY, or GEMINI_API_KEY and ensure the corresponding binary (claude, codex, gemini) is installed.">>
\* The message of the error a detectBackend() outcome carries, as the parts
\* its template literal joins (<<>> for a successful call).
detectMessage(r) ==
    IF r.kind = "ok" THEN <<>>
    ELSE IF r.reason = "no_binaries"
    THEN <<"No agent binaries found. Please install one of: claude, codex, or gemini">>
    ELSE <<"Found '", r.backend, "' binary but API key not configured. ",
           "Backend '", r.backend, "' requires ", envVar(r.backend),
           " environment variable to be set">>

\* A caller invokes isBackendAvailable(b).
CheckAvailable(b) ==
    /\ Len(availLog) < MaxAvailCalls
    /\ availLog' = Append(availLog, [backend |-> b, value |-> isBackendAvailable(b)])
    /\ UNCHANGED <<probe, cred, detectLog>>
    /\ UNCHANGED <<sessVars, stepVars, drvVars, qryVars, permVars, mapVars, clVars>>

\* ======================================================= Discovery, stepwise

\* One isBackendAvailable() or detectBackend() call followed probe by probe.
\* Every probe (findWithWhich, findWithCommand, verifyBinary, the direct
\* --version run) is a promise settled by the first of: the spawned process's
\* exit event, its error event, the probe's timer.  A process that hangs is one
\* whose ChildExit and ChildError steps never happen.  The timer of a probe
\* whose promise has been awaited past is not followed further: it can only
\* kill a process that is gone and resolve a settled promise.

NoRet == [kind |-> "none"]

ProbeIdle ==
    /\ pOp = "none"
    /\ pIdx = 1
    /\ pStage = "idle"
    /\ pKnown = 0
    /\ pPromise = "none"
    /\ pVal = FALSE
    /\ pChild = "none"
    /\ pTimer = "none"
    /\ pEmitted = FALSE
    /\ pFound = <<>>
    /\ pRet = NoRet

FindStages == {"which", "command"}

\* spawn(...) and setTimeout(...) of the probe that stage st awaits.
SpawnProbe(st) ==
    /\ pStage' = st
    /\ pPromise' = "pending"
    /\ pVal' = FALSE
    /\ pChild' = "running"
    /\ pTimer' = "armed"

\* Strategy 1 from known path k+1 on: the first path that existsSync() finds
\* is verified; when none is left, strategy 2 begins.
ScanKnown(k) ==
    \/ \E j \in (k + 1)..MaxKnownPaths :
          /\ pKnown' = j
          /\ SpawnProbe("known_verify")
    \/ /\ pKnown' = MaxKnownPaths
       /\ SpawnProbe("which")

\* The call settles with ret.
ProbeReturn(ret) ==
    /\ pRet' = ret
    /\ pStage' = "returned"
    /\ pPromise' = "none"
    /\ pVal' = FALSE
    /\ pChild' = "none"
    /\ pTimer' = "none"
    /\ pKnown' = 0

\* detectBackend() after its loop over the backends.
detectResult(availableBackends) ==
    IF Len(availableBackends) = 0
    THEN [kind |-> "NoBackendFoundError", reason |-> "no_binaries", backend |-> "none"]
    ELSE IF getApiKey(availableBackends[1]).kind = "Error"
    THEN [kind |-> "NoBackendFoundError", reason |-> "key_missing",
          backend |-> availableBackends[1]]
    ELSE [kind |-> "ok", reason |-> "none", backend |-> availableBackends[1]]

\* isBinaryAvailable(Backends[pIdx]) has returned hasBinary to its caller.
BinaryResult(hasBinary) ==
    IF pOp = "isBackendAvailable"
    THEN /\ ProbeReturn([kind |-> "bool",
                         value |-> IF ~hasBinary THEN FALSE ELSE cred[Backends[pIdx]]])
         /\ UNCHANGED <<pIdx, pFound>>
    ELSE LET found == IF hasBinary THEN Append(pFound, Backends[pIdx]) ELSE pFound IN
         /\ pFound' = found
         /\ IF pIdx < Len(Backends)
            THEN /\ pIdx' = pIdx + 1
                 /\ ScanKnown(0)
                 /\ UNCHANGED pRet
            ELSE /\ ProbeReturn(detectResult(found))
                 /\ UNCHANGED pIdx

\* A caller invokes isBackendAvailable(Backends[i]) or detectBackend().
StartProbe(op, i) ==
    /\ pStage \in {"idle", "returned"}
    /\ op = "detectBackend" => i = 1
    /\ pOp' = op
    /\ pIdx' = i
    /\ pEmitted' = FALSE
    /\ pFound' = <<>>
    /\ pRet' = NoRet
    /\ ScanKnown(0)
    /\ UNCHANGED <<sessVars, detVars, drvVars, qryVars, permVars, mapVars, clVars>>

\* child.on("exit", ...): the current probe's process exits with a code, having
\* written a path or nothing.
ChildExit(code, hasOutput) ==
    /\ pChild = "running"
    /\ pChild' = "exited"
    /\ pEmitted' = TRUE
    /\ IF pPromise = "pending"
       THEN /\ pPromise' = "resolved"
            /\ pVal' = IF pStage \in FindStages THEN (code = 0 /\ hasOutput)
                       ELSE code = 0
       ELSE UNCHANGED <<pPromise, pVal>>
    /\ UNCHANGED <<pOp, pIdx, pStage, pKnown, pTimer, pFound, pRet>>
    /\ UNCHANGED <<sessVars, detVars, drvVars, qryVars, permVars, mapVars, clVars>>

\* child.on("error", ...): the current probe's process could not be run.
ChildError ==
    /\ pChild = "running"
    /\ pChild' = "errored"
    /\ pEmitted' = TRUE
    /\ IF pPromise = "pending"
       THEN pPromise' = "resolved" /\ pVal' = FALSE
       ELSE UNCHANGED <<pPromise, pVal>>
    /\ UNCHANGED <<pOp, pIdx, pStage, pKnown, pTimer, pFound, pRet>>
    /\ UNCHANGED <<sessVars, detVars, drvVars, qryVars, permVars, mapVars, clVars>>

\* Variant of the timer callback that kills the process and resolves nothing.
TimerFire_KillOnly ==
    /\ pTimer = "armed"
    /\ pTimer' = "fired"
    /\ pChild' = IF pChild = "running" THEN "killed" ELSE pChild
    /\ UNCHANGED <<pOp, pIdx, pStage, pKnown, pPromise, pVal, pEmitted, pFound, pRet>>
    /\ UNCHANGED <<sessVars, detVars, drvVars, qryVars, permVars, mapVars, clVars>>
\* The setTimeout callback of the current probe: child.kill(); resolve(null)
\* or resolve(false).
TimerFire ==
    /\ pTimer = "armed"
    /\ pTimer' = "fired"
    /\ pChild' = IF pChild = "running" THEN "killed" ELSE pChild
    /\ IF pPromise = "pending"
       THEN pPromise' = "resolved" /\ pVal' = FALSE
       ELSE UNCHANGED <<pPromise, pVal>>
    /\ UNCHANGED <<pOp, pIdx, pStage, pKnown, pEmitted, pFound, pRet>>
    /\ UNCHANGED <<sessVars, detVars, drvVars, qryVars, permVars, mapVars, clVars>>

\* isBinaryAvailable() resumes after the probe it awaited has settled.
ProbeResume ==
    /\ pPromise = "resolved"
    /\ CASE pStage = "known_verify" ->
              IF pVal THEN BinaryResult(TRUE)
              ELSE ScanKnown(pKnown) /\ UNCHANGED <<pIdx, pFound, pRet>>
         [] pStage = "which" ->
              /\ \E exists \in BOOLEAN :
                    IF pVal /\ exists THEN SpawnProbe("which_verify")
                    ELSE SpawnProbe("command")
              /\ UNCHANGED <<pIdx, pKnown, pFound, pRet>>
         [] pStage = "which_verify" ->
              IF pVal THEN BinaryResult(TRUE)
              ELSE SpawnProbe("command") /\ UNCHANGED <<pIdx, pKnown, pFound, pRet>>
         [] pStage = "command" ->
              /\ \E exists \in BOOLEAN :
                    IF pVal /\ exists THEN SpawnProbe("command_verify")
                    ELSE SpawnProbe("direct")
              /\ UNCHANGED <<pIdx, pKnown, pFound, pRet>>
         [] pStage = "command_verify" ->
              IF pVal THEN BinaryResult(TRUE)
              ELSE SpawnProbe("direct") /\ UNCHANGED <<pIdx, pKnown, pFound, pRet>>
         [] pStage = "direct" ->
              BinaryResult(pVal)
    /\ UNCHANGED <<pOp, pEmitted>>
    /\ UNCHANGED <<sessVars, detVars, drvVars, qryVars, permVars, mapVars, clVars>>

\* ============================================================ Backend driver

\* One create<Backend>Backend() generator (backends/gemini.ts; the codex and
\* claude drivers have the same shape), the --version process of its startup
\* check, the backend process and the consumer of the generator.  A line the
\* process writes is "event" (maps to a unified event), "malformed" (JSON.parse
\* throws), "poison" (parses, and handling it throws inside the try block),
\* "multi" (maps to two unified events) or "unknown" (maps to none).

LineKinds == {"event", "malformed", "poison", "multi", "unknown"}

\* Variant of the loop body in which a line that fails to parse is an exception
\* of the stream.
lineOutcome_ParseFatal(kind) ==
    IF kind \in {"malformed", "poison"} THEN "throw" ELSE "map"
\* What the loop body does with a line: JSON.parse fails (warn and continue),
\* the handling throws into the outer catch, or the line reaches the mapper.
lineOutcome(kind) ==
    CASE kind = "malformed" -> "skip"
      [] kind = "poison" -> "throw"
      [] OTHER -> "map"

\* The unified events the mapper returns for line n, each tagged with its
\* origin <<n, position in the mapper's list>>.
mapLine(n, kind) ==
    CASE kind = "event" -> << <<n, 1>> >>
      [] kind = "multi" -> << <<n, 1>>, <<n, 2>> >>
      [] OTHER -> <<>>

\* Variant of the inner loop that yields the mapper's list from its end.
nextYield_Last(events) ==
    [event |-> events[Len(events)], rest |-> SubSeq(events, 1, Len(events) - 1)]
\* for (const unifiedEvent of unifiedEvents) yield unifiedEvent: the event
\* yielded next and the ones left for the following resumptions.
nextYield(events) == [event |-> Head(events), rest |-> Tail(events)]

\* Variant of the catch block that swallows the exception and ends the loop
\* without an event.
catchYield_Nothing == <<>>
\* catch (error) { yield {type: "error", severity: "fatal", ...} }: what the
\* catch block yields.
catchYield == <<"error:fatal">>

DriverIdle ==
    /\ dpc = "unstarted"
    /\ dReq = "none"
    /\ dProbe = "none"
    /\ dProbePromise = "none"
    /\ dChild = "none"
    /\ dKilled = FALSE
    /\ dExitListener = FALSE
    /\ dExitObserved = FALSE
    /\ dStdout = "none"
    /\ dLines = <<>>
    /\ dSent = 0
    /\ dYielded = <<>>
    /\ dPending = <<>>
    /\ dTaken = 0
    /\ dWritten = <<>>
    /\ dTrace = <<>>

\* Variant of the finally block that leaves the process alone.
Finally_NoKill == dKilled
\* finally { if (!child.killed) child.kill(); }: child.killed after the block.
\* kill() on a process that has exited sends nothing and leaves it false.
Finally == IF ~dKilled /\ dChild = "running" THEN TRUE ELSE dKilled

\* The consumer calls next(): the generator starts, or resumes from its yield
\* and runs to its next yield or await.
DriverNext ==
    /\ dReq = "none"
    /\ dpc \in {"unstarted", "yield_event", "yield_error"}
    /\ CASE dpc = "unstarted" ->
              \* resolveBinaryPath(), then checkGeminiCLI() spawns the probe
              /\ dpc' = "probing"
              /\ dReq' = "next"
              /\ dProbe' = "running"
              /\ dProbePromise' = "pending"
              /\ UNCHANGED <<dKilled, dExitListener, dYielded, dPending, dTrace>>
         [] dpc = "yield_event" /\ dPending # <<>> ->
              \* the inner loop yields the next event of the same line
              /\ dYielded' = Append(dYielded, "event")
              /\ dTrace' = Append(dTrace, nextYield(dPending).event)
              /\ dPending' = nextYield(dPending).rest
              /\ UNCHANGED <<dpc, dReq, dProbe, dProbePromise, dKilled, dExitListener>>
         [] dpc = "yield_event" /\ dPending = <<>> ->
              \* back to the for await: the next line is awaited
              /\ dpc' = "streaming"
              /\ dReq' = "next"
              /\ UNCHANGED <<dProbe, dProbePromise, dKilled, dExitListener,
                             dYielded, dPending, dTrace>>
         [] dpc = "yield_error" ->
              \* the catch block ends: finally, then the exit listener
              /\ dpc' = "await_exit"
              /\ dReq' = "next"
              /\ dKilled' = Finally
              /\ dExitListener' = TRUE
              /\ UNCHANGED <<dProbe, dProbePromise, dYielded, dPending, dTrace>>
    /\ UNCHANGED <<dChild, dExitObserved, dStdout, dLines, dSent, dTaken, dWritten>>
    /\ UNCHANGED <<sessVars, detVars, stepVars, qryVars, permVars, mapVars, clVars>>

\* The consumer abandons the stream (a break out of for await calls return()):
\* a generator suspended at a yield runs its finally block and completes; one
\* that never started completes at once.
DriverReturn ==
    /\ dReq = "none"
    /\ dpc \in {"unstarted", "yield_event", "yield_error"}
    /\ dpc' = "done"
    /\ dKilled' = IF dpc = "unstarted" THEN dKilled ELSE Finally
    /\ UNCHANGED <<dReq, dProbe, dProbePromise, dChild, dExitListener,
                   dExitObserved, dStdout, dLines, dSent, dYielded>>
    /\ UNCHANGED <<dPending, dTaken, dWritten, dTrace>>
    /\ UNCHANGED <<sessVars, detVars, stepVars, qryVars, permVars, mapVars, clVars>>

\* Variant of the exit listener that resolves whatever the exit code.
DriverProbeExit_AnyCode(code) ==
    /\ dProbe = "running"
    /\ dProbe' = IF code = 0 THEN "exited_0" ELSE "exited_nonzero"
    /\ dProbePromise' = "resolved"
    /\ UNCHANGED <<dpc, dReq, dChild, dKilled, dExitListener, dExitObserved,
                   dStdout, dLines, dSent, dYielded>>
    /\ UNCHANGED <<dPending, dTaken, dWritten, dTrace>>
    /\ UNCHANGED <<sessVars, detVars, stepVars, qryVars, permVars, mapVars, clVars>>
\* The --version process exits: checkGeminiCLI's promise resolves on code 0
\* and rejects with BackendNotAvailableError otherwise.
DriverProbeExit(code) ==
    /\ dProbe = "running"
    /\ dProbe' = IF code = 0 THEN "exited_0" ELSE "exited_nonzero"
    /\ dProbePromise' = IF code = 0 THEN "resolved" ELSE "rejected"
    /\ UNCHANGED <<dpc, dReq, dChild, dKilled, dExitListener, dExitObserved,
                   dStdout, dLines, dSent, dYielded>>
    /\ UNCHANGED <<dPending, dTaken, dWritten, dTrace>>
    /\ UNCHANGED <<sessVars, detVars, stepVars, qryVars, permVars, mapVars, clVars>>

\* The --version process cannot be run: the promise rejects.
DriverProbeError ==
    /\ dProbe = "running"
    /\ dProbe' = "errored"
    /\ dProbePromise' = "rejected"
    /\ UNCHANGED <<dpc, dReq, dChild, dKilled, dExitListener, dExitObserved,
                   dStdout, dLines, dSent, dYielded>>
    /\ UNCHANGED <<dPending, dTaken, dWritten, dTrace>>
    /\ UNCHANGED <<sessVars, detVars, stepVars, qryVars, permVars, mapVars, clVars>>

\* The generator resumes after `await checkGeminiCLI(cliPath)`: it throws the
\* rejection to the consumer, or spawns the backend process and awaits the
\* first line.
DriverProbeResume ==
    /\ dpc = "probing"
    /\ dProbePromise \in {"resolved", "rejected"}
    /\ IF dProbePromise = "rejected"
       THEN /\ dpc' = "thrown"
            /\ dReq' = "none"
            /\ UNCHANGED <<dChild, dStdout>>
       ELSE /\ dpc' = "streaming"
            /\ dChild' = "running"
            /\ dStdout' = "open"
            /\ UNCHANGED dReq
    /\ UNCHANGED <<dProbe, dProbePromise, dKilled, dExitListener, dExitObserved,
                   dLines, dSent, dYielded>>
    /\ UNCHANGED <<dPending, dTaken, dWritten, dTrace>>
    /\ UNCHANGED <<sessVars, detVars, stepVars, qryVars, permVars, mapVars, clVars>>

\* The backend process writes a line to its standard output.
StdoutLine(kind) ==
    /\ dStdout = "open"
    /\ dChild = "running"
    /\ dSent < MaxLines
    /\ dSent' = dSent + 1
    /\ dLines' = Append(dLines, kind)
    /\ dWritten' = Append(dWritten, kind)
    /\ UNCHANGED <<dpc, dReq, dProbe, dProbePromise, dChild, dKilled,
                   dExitListener, dExitObserved, dStdout, dYielded>>
    /\ UNCHANGED <<dPending, dTaken, dTrace>>
    /\ UNCHANGED <<sessVars, detVars, stepVars, qryVars, permVars, mapVars, clVars>>

\* The standard output of the backend process ends.
StdoutEnd ==
    /\ dStdout = "open"
    /\ dStdout' = "ended"
    /\ UNCHANGED <<dpc, dReq, dProbe, dProbePromise, dChild, dKilled,
                   dExitListener, dExitObserved, dLines, dSent, dYielded>>
    /\ UNCHANGED <<dPending, dTaken, dWritten, dTrace>>
    /\ UNCHANGED <<sessVars, detVars, stepVars, qryVars, permVars, mapVars, clVars>>

\* The backend process exits: its "exit" event runs the listeners registered
\* at that moment.
DriverChildExit ==
    /\ dChild = "running"
    /\ dChild' = "exited"
    /\ dExitObserved' = dExitListener
    /\ UNCHANGED <<dpc, dReq, dProbe, dProbePromise, dKilled, dExitListener,
                   dStdout, dLines, dSent, dYielded>>
    /\ UNCHANGED <<dPending, dTaken, dWritten, dTrace>>
    /\ UNCHANGED <<sessVars, detVars, stepVars, qryVars, permVars, mapVars, clVars>>

\* The for await loop resumes: with a line, or with the end of the output.
StreamResume ==
    /\ dpc = "streaming"
    /\ IF dLines # <<>>
       THEN LET kind == Head(dLines)
                events == mapLine(dTaken + 1, kind)
            IN
            /\ dLines' = Tail(dLines)
            /\ dTaken' = dTaken + 1
            /\ CASE lineOutcome(kind) = "skip" ->
                      \* console.warn; continue
                      UNCHANGED <<dpc, dReq, dYielded, dPending, dTrace>>
                 [] lineOutcome(kind) = "map" /\ events = <<>> ->
                      UNCHANGED <<dpc, dReq, dYielded, dPending, dTrace>>
                 [] lineOutcome(kind) = "map" /\ events # <<>> ->
                      /\ dpc' = "yield_event"
                      /\ dReq' = "none"
                      /\ dYielded' = Append(dYielded, "event")
                      /\ dTrace' = Append(dTrace, nextYield(events).event)
                      /\ dPending' = nextYield(events).rest
                 [] lineOutcome(kind) = "throw" /\ catchYield # <<>> ->
                      /\ dpc' = "yield_error"
                      /\ dReq' = "none"
                      /\ dYielded' = dYielded \o catchYield
                      /\ dTrace' = Append(dTrace, <<dTaken + 1, 0>>)
                      /\ UNCHANGED dPending
                 [] lineOutcome(kind) = "throw" /\ catchYield = <<>> ->
                      \* nothing to yield: finally, then the exit listener
                      /\ dpc' = "await_exit"
                      /\ UNCHANGED <<dReq, dYielded, dPending, dTrace>>
            /\ IF lineOutcome(kind) = "throw" /\ catchYield = <<>>
               THEN dKilled' = Finally /\ dExitListener' = TRUE
               ELSE UNCHANGED <<dKilled, dExitListener>>
       ELSE /\ dStdout = "ended"
            \* the loop ends: finally, then the exit listener
            /\ dpc' = "await_exit"
            /\ dKilled' = Finally
            /\ dExitListener' = TRUE
            /\ UNCHANGED <<dReq, dLines, dYielded, dPending, dTaken, dTrace>>
    /\ UNCHANGED <<dProbe, dProbePromise, dChild, dExitObserved, dStdout, dSent,
                   dWritten>>
    /\ UNCHANGED <<sessVars, detVars, stepVars, qryVars, permVars, mapVars, clVars>>

\* The generator resumes after awaiting the exit promise and completes.
ExitResume ==
    /\ dpc = "await_exit"
    /\ dExitObserved
    /\ dpc' = "done"
    /\ dReq' = "none"
    /\ UNCHANGED <<dProbe, dProbePromise, dChild, dKilled, dExitListener,
                   dExitObserved, dStdout, dLines, dSent, dYielded>>
    /\ UNCHANGED <<dPending, dTaken, dWritten, dTrace>>
    /\ UNCHANGED <<sessVars, detVars, stepVars, qryVars, permVars, mapVars, clVars>>

\* ========================================================= Query orchestrator

\* One query() call (index.ts) and the result object it resolves with.  The
\* driver generator behind result.events is taken here as a source of unified
\* events; a pull is the consumer's next() together with the eventStream()
\* loop body it runs.

SessionInitEvent == [type |-> "session", subtype |-> "init", session_id |-> "s1"]
SessionEndEvent == [type |-> "session", subtype |-> "end", session_id |-> "s2"]
MessageEvent == [type |-> "message", subtype |-> "none", session_id |-> ""]
\* a later session/init event of the same stream, with another session_id
SessionReinitEvent == [type |-> "session", subtype |-> "init", session_id |-> "s3"]
UnifiedEvents == {SessionInitEvent, SessionEndEvent, MessageEvent, SessionReinitEvent}

QueryIdle ==
    /\ qRes = [kind |-> "none"]
    /\ sessionId = ""
    /\ eventsBuffer = <<>>
    /\ qDone = FALSE
    /\ qRead = "none"
    /\ qLast = "none"

\* query(prompt, options): opt is options.backend, or "auto" when it is unset.
Query(opt) ==
    /\ qRes.kind = "none"
    /\ qRes' = IF opt \in BackendSet
               THEN IF getApiKey(opt).kind = "Error"
                    THEN [kind |-> "Error", opt |-> opt, backend |-> opt, detected |-> FALSE]
                    ELSE [kind |-> "ok", opt |-> opt, backend |-> opt, detected |-> FALSE]
               ELSE [kind |-> detectBackend.kind, opt |-> opt,
                     backend |-> detectBackend.backend, detected |-> TRUE]
    /\ qLast' = "query"
    /\ UNCHANGED <<sessionId, eventsBuffer, qDone, qRead>>
    /\ UNCHANGED <<sessVars, detVars, stepVars, drvVars, permVars, mapVars, clVars>>

\* One iteration of eventStream()'s loop: the driver yields event e.
PullEvent(e) ==
    /\ qRes.kind = "ok"
    /\ ~qDone
    /\ Len(eventsBuffer) < MaxEvents
    /\ sessionId' = IF e.type = "session" /\ e.subtype = "init" THEN e.session_id
                    ELSE sessionId
    /\ eventsBuffer' = Append(eventsBuffer, e)
    /\ qLast' = "pull"
    /\ UNCHANGED <<qRes, qDone, qRead>>
    /\ UNCHANGED <<sessVars, detVars, stepVars, drvVars, permVars, mapVars, clVars>>

\* The driver's stream ends, and with it result.events.
PullEnd ==
    /\ qRes.kind = "ok"
    /\ ~qDone
    /\ qDone' = TRUE
    /\ qLast' = "pull"
    /\ UNCHANGED <<qRes, sessionId, eventsBuffer, qRead>>
    /\ UNCHANGED <<sessVars, detVars, stepVars, drvVars, permVars, mapVars, clVars>>

\* Variant of the getter without the scan of the buffer.
sessionIdGetter_NoScan(sid, buf) ==
    IF sid # "" THEN [value |-> sid, sid |-> sid]
    ELSE [value |-> "unknown", sid |-> sid]
\* get sessionId(): the value returned, and the local sessionId afterwards.
sessionIdGetter(sid, buf) ==
    IF sid # "" THEN [value |-> sid, sid |-> sid]
    ELSE LET hits == SelectSeq(buf, LAMBDA e : e.type = "session" /\ e.session_id # "") IN
         IF hits # <<>> THEN [value |-> hits[1].session_id, sid |-> hits[1].session_id]
         ELSE [value |-> "unknown", sid |-> sid]

\* The caller reads result.sessionId.
ReadSessionId ==
    /\ qRes.kind = "ok"
    /\ qRead' = sessionIdGetter(sessionId, eventsBuffer).value
    /\ sessionId' = sessionIdGetter(sessionId, eventsBuffer).sid
    /\ qLast' = "read"
    /\ UNCHANGED <<qRes, eventsBuffer, qDone>>
    /\ UNCHANGED <<sessVars, detVars, stepVars, drvVars, permVars, mapVars, clVars>>

\* Everything outside the session and the logged discovery calls, at rest.
\* ============================================================ Permission requests
\* createClientHandler().requestPermission of the client: one call answers one
\* session/request_permission request of the agent.

MaxOptions == 2
OptionKinds == {"allow_once", "allow_always", "reject_once", "reject_always"}
NoChoice == 0

\* params.options: the option at position i has optionId i.
OptionLists == UNION {[1..n -> OptionKinds] : n \in 0..MaxOptions}

\* options.onPermissionRequest: absent, or a callback that resolves with an
\* option id of its own choosing, or one that throws.
Handlers ==
    {[kind |-> "none", optionId |-> NoChoice], [kind |-> "throws", optionId |-> NoChoice]}
        \cup {[kind |-> "returns", optionId |-> i] : i \in 1..MaxOptions}

AllowKinds == {"allow_once", "allow_always"}
RejectKinds == {"reject_once", "reject_always"}

\* Array.prototype.find: the first position whose kind is in kinds, 0 = undefined.
find(options, kinds) ==
    IF \E i \in 1..Len(options) : options[i] \in kinds
    THEN CHOOSE i \in 1..Len(options) :
            /\ options[i] \in kinds
            /\ \A j \in 1..(i - 1) : options[j] \notin kinds
    ELSE NoChoice

Selected(id, asked) == [kind |-> "selected", optionId |-> id, consulted |-> asked]
PermissionThrows(asked) == [kind |-> "rejected", optionId |-> NoChoice, consulted |-> asked]

\* found?.optionId ?? params.options[0].optionId
optionOrFirst(options, found, asked) ==
    IF found # NoChoice THEN Selected(found, asked)
    ELSE IF Len(options) > 0 THEN Selected(1, asked)
    ELSE PermissionThrows(asked)

requestPermission(options, autoApprove, handler) ==
    IF autoApprove THEN optionOrFirst(options, find(options, AllowKinds), FALSE)
    ELSE IF handler.kind = "returns" THEN Selected(handler.optionId, TRUE)
    ELSE IF handler.kind = "throws" THEN PermissionThrows(TRUE)
    ELSE optionOrFirst(options, find(options, RejectKinds), FALSE)

NoAnswer == [kind |-> "none", optionId |-> NoChoice, consulted |-> FALSE]

PermissionIdle ==
    /\ rParams = <<>>
    /\ rAuto = FALSE
    /\ rHandler = [kind |-> "none", optionId |-> NoChoice]
    /\ rAnswer = NoAnswer

\* The agent sends one request; the handler answers it.
RequestPermission(options, autoApprove, handler) ==
    /\ rParams' = options
    /\ rAuto' = autoApprove
    /\ rHandler' = handler
    /\ rAnswer' = requestPermission(options, autoApprove, handler)
    /\ UNCHANGED <<sessVars, detVars, stepVars, drvVars, qryVars, mapVars, clVars>>

\* ============================================================ Mappers
\* mapCodexEvent, mapGeminiEvent and mapClaudeEvent: each takes one parsed JSON
\* object and returns the unified events for it.  A raw event is a record of
\* the fields its mapper reads; has* says whether a nested object is present.
\* A unified event keeps the fields the claims speak about.

MaxChanges == 2
MaxRawEvents == 2
Undefined == "undefined"
Unrecognized == "bogus"
ActionIds == {"a1", "a2"}

UE(t, st, id, status, sev) ==
    [type |-> t, subtype |-> st, action_id |-> id, status |-> status,
     severity |-> sev, file_path |-> "-", change_type |-> "-",
     session_id |-> "-", data |-> "-"]

\* A session event with its session_id; a metrics event with what it carries:
\* "none" (no data field at all), "zeroed" (only empty or zero fields), "populated".
SessionUE(st, sid) == [UE("session", st, "-", "-", "-") EXCEPT !.session_id = sid]
MetricsUE(d) == [UE("metrics", "session_summary", "-", "-", "-") EXCEPT !.data = d]

\* x || 'unknown'
orUnknown_AsGiven(x) == x

orUnknown(x) == IF x \in {"undefined", ""} THEN "unknown" ELSE x

Ok(events) == [kind |-> "ok", events |-> events]
TypeError == [kind |-> "TypeError", events |-> <<>>]

\* What the default branch of a mapper's switch leaves in  events : it only warns.
unknownType_AsError == <<UE("error", "-", "-", "-", "error")>>

unknownType == <<>>

\* ---- Codex
CodexEventTypes == {"thread.started", "turn.started", "turn.completed", "turn.failed",
                    "item.started", "item.updated", "item.completed", "error"}
ItemEventTypes == {"item.started", "item.updated", "item.completed"}
CodexItemTypes == {"agent_message", "reasoning", "command_execution", "file_change",
                   "mcp_tool_call", "web_search", "todo_list", "error"}
\* the three statuses the mapper knows, and one it does not
ItemStatuses == {"in_progress", "completed", "failed", "declined"}
Changes == {[path |-> "f1", kind |-> "add"], [path |-> "f2", kind |-> "update"]}
ChangeLists == UNION {[1..n -> Changes] : n \in 0..MaxChanges}

\* event.item is undefined
NoItem == [type |-> Undefined, id |-> Undefined, status |-> Undefined,
           hasChanges |-> FALSE, changes |-> <<>>, hasItems |-> FALSE]

CodexItems ==
    {it \in [type : CodexItemTypes \cup {Unrecognized}, id : ActionIds,
             status : ItemStatuses, hasChanges : BOOLEAN, changes : ChangeLists,
             hasItems : BOOLEAN] :
        /\ it.type # "file_change" => ~it.hasChanges
        /\ ~it.hasChanges => it.changes = <<>>
        /\ it.type # "todo_list" => ~it.hasItems}

CodexRaw ==
    {ev \in [type : CodexEventTypes \cup {Unrecognized}, hasUsage : BOOLEAN,
             hasError : BOOLEAN, item : CodexItems \cup {NoItem}] :
        /\ ev.type # "turn.completed" => ~ev.hasUsage
        /\ ev.type # "turn.failed" => ~ev.hasError
        /\ ev.type \notin ItemEventTypes => ev.item = NoItem}

mapItemStatus(item, eventType) ==
    IF eventType = "item.started" THEN "started"
    ELSE IF eventType = "item.updated" THEN "in_progress"
    ELSE IF eventType = "item.completed"
         THEN IF item.status = "failed" THEN "failed" ELSE "completed"
    ELSE "in_progress"

mapCommandStatus_AsGiven(status) == status

mapCommandStatus(status) ==
    IF status \in {"in_progress", "completed", "failed"} THEN status ELSE "in_progress"

mapMcpStatus(status) ==
    IF status \in {"in_progress", "completed", "failed"} THEN status ELSE "in_progress"

\* The events of item.changes.forEach, when item.changes is an array.
fileChangeEvents_Single(item) ==
    IF item.changes = <<>> THEN <<>>
    ELSE << [UE("action", "file_change", item.id,
                IF item.status = "completed" THEN "completed" ELSE "failed", "-")
                EXCEPT !.file_path = item.changes[1].path,
                       !.change_type = item.changes[1].kind] >>

fileChangeEvents(item) ==
    [i \in 1..Len(item.changes) |->
        [UE("action", "file_change", item.id,
            IF item.status = "completed" THEN "completed" ELSE "failed", "-")
            EXCEPT !.file_path = item.changes[i].path,
                   !.change_type = item.changes[i].kind]]

\* The cases of mapCodexItem's switch on item.type.
mapCodexKnownItem(item, eventType) ==
    CASE item.type = "agent_message" -> Ok(<<UE("message", "-", "-", "-", "-")>>)
      [] item.type = "reasoning" ->
            Ok(<<UE("action", "reasoning", item.id, "completed", "-")>>)
      [] item.type = "command_execution" ->
            Ok(<<UE("action", "command", item.id, mapCommandStatus(item.status), "-")>>)
      [] item.type = "file_change" ->
            IF item.hasChanges THEN Ok(fileChangeEvents(item)) ELSE TypeError
      [] item.type = "mcp_tool_call" ->
            Ok(<<UE("action", "mcp_tool", item.id, mapMcpStatus(item.status), "-")>>)
      [] item.type = "web_search" ->
            Ok(<<UE("action", "web_search", item.id, mapItemStatus(item, eventType), "-")>>)
      [] item.type = "todo_list" ->
            IF item.hasItems THEN Ok(<<UE("progress", "todo_update", "-", "-", "-")>>)
            ELSE TypeError
      [] item.type = "error" -> Ok(<<UE("error", "-", "-", "-", "error")>>)

mapCodexItem(item, eventType) ==
    IF item = NoItem THEN TypeError
    ELSE IF item.type \in CodexItemTypes THEN mapCodexKnownItem(item, eventType)
    ELSE Ok(unknownType)

mapCodexEvent(event) ==
    CASE event.type = "thread.started" -> Ok(<<SessionUE("init", "t1")>>)
      [] event.type = "turn.started" -> Ok(<<UE("turn", "started", "-", "-", "-")>>)
      [] event.type = "turn.completed" ->
            IF event.hasUsage THEN Ok(<<UE("turn", "completed", "-", "-", "-")>>)
            ELSE TypeError
      [] event.type = "turn.failed" ->
            IF event.hasError THEN Ok(<<UE("turn", "failed", "-", "-", "-")>>)
            ELSE TypeError
      [] event.type \in ItemEventTypes -> mapCodexItem(event.item, event.type)
      [] event.type = "error" -> Ok(<<UE("error", "-", "-", "-", "fatal")>>)
      [] OTHER -> Ok(unknownType)

\* ---- Gemini
GeminiEventTypes == {"init", "message", "tool_use", "tool_result", "error", "result"}
RawSeverities == {Undefined, "warning", "error", "fatal", "info"}

GeminiRaw ==
    {ev \in [type : GeminiEventTypes \cup {Unrecognized}, tool_id : ActionIds \cup {Undefined},
             status : {Undefined, "success", "error"}, severity : RawSeverities,
             hasStats : BOOLEAN, toolCalls : BOOLEAN, session_id : {Undefined, "s1"}] :
        /\ ev.type \notin {"tool_use", "tool_result"} => ev.tool_id = Undefined
        /\ ev.type \notin {"tool_result", "result"} => ev.status = Undefined
        /\ ev.type # "error" => ev.severity = Undefined
        /\ ev.type # "result" => ~ev.hasStats
        /\ ~ev.hasStats => ~ev.toolCalls
        /\ ev.type # "init" => ev.session_id = Undefined}

gemSeverity(event) == IF event.severity = "warning" THEN "warning" ELSE "error"

mapGeminiKnown(event) ==
    CASE event.type = "init" -> <<SessionUE("init", event.session_id)>>
      [] event.type = "message" -> <<UE("message", "-", "-", "-", "-")>>
      [] event.type = "tool_use" -> <<UE("action", "tool", event.tool_id, "started", "-")>>
      [] event.type = "tool_result" ->
            <<UE("action", "tool", event.tool_id,
                 IF event.status = "success" THEN "completed" ELSE "failed", "-")>>
      [] event.type = "error" -> <<UE("error", "-", "-", "-", gemSeverity(event))>>
      [] event.type = "result" ->
            (IF event.status = "error" THEN <<UE("turn", "failed", "-", "-", "-")>>
             ELSE IF event.hasStats
                  THEN <<UE("turn", "completed", "-", "-", "-"),
                         MetricsUE(IF event.toolCalls THEN "populated" ELSE "none")>>
             ELSE <<>>)
            \o <<SessionUE("end", "unknown")>>

mapGeminiEvent(event) ==
    IF event.type \in GeminiEventTypes THEN Ok(mapGeminiKnown(event)) ELSE Ok(unknownType)

\* ---- Claude
ClaudeStreamTypes == {"message_start", "content_block_delta"}
ClaudeEventTypes == {"system", "assistant", "user", "result", "tool_progress", "status",
                     "compact_boundary"} \cup ClaudeStreamTypes
BlockTypes == {"text", "tool_use", "thinking", "tool_result", Unrecognized}
Blocks == [type : BlockTypes, id : ActionIds, is_error : BOOLEAN]
\* message.content: undefined, or an array of at most one block
Contents == {<<>>} \cup {<<b>> : b \in Blocks}

ClaudeRaw ==
    {ev \in [type : ClaudeEventTypes \cup {Unrecognized}, hasMessage : BOOLEAN,
             hasContent : BOOLEAN, content : Contents, hasDelta : BOOLEAN,
             deltaType : {Undefined, "text_delta", "input_json_delta"},
             hasResult : BOOLEAN, hasModelUsage : BOOLEAN, models : 0..1,
             denials : 0..1, sessionId : {Undefined, "", "s1"}] :
        /\ ev.type \notin {"assistant", "user"} => ~ev.hasMessage
        /\ ~ev.hasMessage => ~ev.hasContent
        /\ ~ev.hasContent => ev.content = <<>>
        /\ ev.type # "content_block_delta" => ~ev.hasDelta
        /\ ev.hasDelta <=> ev.deltaType # Undefined
        /\ ev.type # "result" => ~ev.hasResult
        /\ ~ev.hasResult => ~ev.hasModelUsage /\ ev.denials = 0
        /\ ~ev.hasModelUsage => ev.models = 0
        /\ ~ev.hasResult /\ ev.type # "system" => ev.sessionId = Undefined}

assistantBlock(block) ==
    CASE block.type = "text" -> <<UE("message", "-", "-", "-", "-")>>
      [] block.type = "tool_use" -> <<UE("action", "tool", block.id, "started", "-")>>
      [] block.type = "thinking" -> <<UE("action", "reasoning", "-", "completed", "-")>>
      [] OTHER -> <<>>

userBlock(block) ==
    CASE block.type = "text" -> <<UE("message", "-", "-", "-", "-")>>
      [] block.type = "tool_result" ->
            <<UE("action", "tool", block.id,
                 IF block.is_error THEN "failed" ELSE "completed", "-")>>
      [] OTHER -> <<>>

mapClaudeEvent(message) ==
    CASE message.type = "system" -> Ok(<<SessionUE("init", orUnknown(message.sessionId))>>)
      [] message.type = "assistant" ->
            IF ~message.hasMessage THEN TypeError
            ELSE IF message.content = <<>> THEN Ok(<<>>)
            ELSE Ok(assistantBlock(message.content[1]))
      [] message.type = "user" ->
            IF ~message.hasMessage THEN TypeError
            ELSE IF message.content = <<>> THEN Ok(<<>>)
            ELSE Ok(userBlock(message.content[1]))
      [] message.type \in ClaudeStreamTypes ->
            IF message.type # "content_block_delta" THEN Ok(<<>>)
            ELSE IF ~message.hasDelta THEN TypeError
            ELSE IF message.deltaType = "text_delta"
                 THEN Ok(<<UE("message", "-", "-", "-", "-")>>)
            ELSE Ok(<<>>)
      [] message.type = "result" ->
            IF ~message.hasResult THEN TypeError
            ELSE Ok(<<UE("turn", "completed", "-", "-", "-"),
                      SessionUE("end", orUnknown(message.sessionId))>>
                    \o (IF message.hasModelUsage
                        THEN <<MetricsUE(IF message.models > 0 THEN "populated" ELSE "zeroed")>>
                        ELSE <<>>)
                    \o (IF message.denials > 0
                        THEN <<UE("error", "-", "-", "-", "warning")>>
                        ELSE <<>>))
      [] message.type = "tool_progress" -> Ok(<<UE("progress", "elapsed_time", "-", "-", "-")>>)
      [] message.type \in {"status", "compact_boundary"} ->
            Ok(<<UE("progress", "status_update", "-", "-", "-")>>)
      [] OTHER -> Ok(unknownType)

\* ---- the driver's call  mapper(event)  on each parsed line
RawEvents(b) ==
    CASE b = "codex" -> CodexRaw
      [] b = "gemini" -> GeminiRaw
      [] b = "claude" -> ClaudeRaw

mapEvent(b, raw) ==
    CASE b = "codex" -> mapCodexEvent(raw)
      [] b = "gemini" -> mapGeminiEvent(raw)
      [] b = "claude" -> mapClaudeEvent(raw)

MapperIdle ==
    /\ mBackend = "none"
    /\ mIn = [type |-> "none"]
    /\ mOut = [kind |-> "none", events |-> <<>>]
    /\ mLog = <<>>
    /\ mCount = 0
    /\ mLife = [id \in ActionIds |-> "new"]

\* One line of backend b's stream goes through b's mapper.
MapEvent(b, raw) ==
    /\ mCount < MaxRawEvents
    /\ mBackend \in {"none", b}
    /\ mBackend' = b
    /\ mIn' = raw
    /\ mOut' = mapEvent(b, raw)
    /\ mLog' = mLog \o mapEvent(b, raw).events
    /\ mCount' = mCount + 1
    /\ UNCHANGED mLife
    /\ UNCHANGED <<sessVars, detVars, stepVars, drvVars, qryVars, permVars, clVars>>

\* A well-formed Codex item event: every field its mapper reads is present, and
\* each item id goes  item.started, item.updated*, item.completed  with one
\* item type, in progress until it completes.
WellFormedItem(raw) ==
    /\ raw.type \in ItemEventTypes
    /\ raw.item # NoItem
    /\ raw.item.type \in CodexItemTypes
    /\ raw.item.type = "file_change" => raw.item.hasChanges
    /\ raw.item.type = "todo_list" => raw.item.hasItems
    /\ raw.item.status \in (IF raw.type = "item.completed" THEN {"completed", "failed"}
                           ELSE {"in_progress"})

lifeAfter(life, raw) ==
    [life EXCEPT ![raw.item.id] =
        IF raw.type = "item.completed" THEN "closed" ELSE raw.item.type]

MapItemEvent(raw) ==
    /\ WellFormedItem(raw)
    /\ mCount < MaxRawEvents
    /\ mBackend \in {"none", "codex"}
    /\ CASE raw.type = "item.started" -> mLife[raw.item.id] = "new"
         [] raw.type = "item.updated" -> mLife[raw.item.id] = raw.item.type
         [] raw.type = "item.completed" -> mLife[raw.item.id] \in {"new", raw.item.type}
    /\ mBackend' = "codex"
    /\ mIn' = raw
    /\ mOut' = mapCodexEvent(raw)
    /\ mLog' = mLog \o mapCodexEvent(raw).events
    /\ mCount' = mCount + 1
    /\ mLife' = lifeAfter(mLife, raw)
    /\ UNCHANGED <<sessVars, detVars, stepVars, drvVars, qryVars, permVars, clVars>>

\* ============================================================ Client
\* CodingAgentClient: connect(), newSession(), loadSession(), disconnect(), and
\* the sessionUpdate handler that passes the agent's notifications on.

MaxSessions == 2
MaxNotes == 2
SessionIds == 1..MaxSessions
NoHandler == 0

ClientIdle ==
    /\ connection = "null"
    /\ cInit = "none"
    /\ sessionUpdateHandler = NoHandler
    /\ cSessions = <<>>
    /\ cNotes = <<>>
    /\ cLast = [op |-> "none", outcome |-> "none", init |-> "none"]

\* get isConnected()
isConnected == connection # "null"

\* connect() throws before the connection object exists: no provider, the
\* spawn fails, or the process has no stdio.
ConnectFailEarly ==
    /\ connection = "null"
    /\ cInit # "pending"
    /\ cInit' = "failed"
    /\ UNCHANGED <<connection, sessionUpdateHandler, cSessions, cNotes, cLast>>
    /\ UNCHANGED <<sessVars, detVars, stepVars, drvVars, qryVars, permVars, mapVars>>

\* connect() up to `await this.connection.initialize(...)`.
ConnectBegin ==
    /\ connection = "null"
    /\ cInit # "pending"
    /\ connection' = "set"
    /\ cInit' = "pending"
    /\ UNCHANGED <<sessionUpdateHandler, cSessions, cNotes, cLast>>
    /\ UNCHANGED <<sessVars, detVars, stepVars, drvVars, qryVars, permVars, mapVars>>

\* The initialize exchange ends: with a response (ok), or with a rejection or
\* an empty response, on which connect() throws.
InitializeDone(ok) ==
    /\ cInit = "pending"
    /\ connection = "set"
    /\ cInit' = IF ok THEN "ok" ELSE "failed"
    /\ UNCHANGED <<connection, sessionUpdateHandler, cSessions, cNotes, cLast>>
    /\ UNCHANGED <<sessVars, detVars, stepVars, drvVars, qryVars, permVars, mapVars>>

\* new Session(connection, id, options, register): the constructor registers
\* its closure with  this.sessionUpdateHandler = handler.
registerUpdateHandler(handler, object) == object

\* newSession() / loadSession(): throws NotConnectedError without a
\* connection; otherwise the RPC is made, and its response makes a Session.
OpenSession(op, id, rpcOk) ==
    /\ cInit # "pending"
    /\ Len(cSessions) < MaxSessions
    /\ IF ~isConnected
       THEN /\ cLast' = [op |-> op, outcome |-> "NotConnectedError", init |-> cInit]
            /\ UNCHANGED <<sessionUpdateHandler, cSessions>>
       ELSE IF ~rpcOk
       THEN /\ cLast' = [op |-> op, outcome |-> "rpc_error", init |-> cInit]
            /\ UNCHANGED <<sessionUpdateHandler, cSessions>>
       ELSE /\ cLast' = [op |-> op, outcome |-> "session", init |-> cInit]
            /\ cSessions' = Append(cSessions, id)
            /\ sessionUpdateHandler' =
                  registerUpdateHandler(sessionUpdateHandler, Len(cSessions) + 1)
    /\ UNCHANGED <<connection, cInit, cNotes>>
    /\ UNCHANGED <<sessVars, detVars, stepVars, drvVars, qryVars, permVars, mapVars>>

\* The agent answers session/new with an id no session has yet.
NewSession(rpcOk) ==
    /\ \E id \in SessionIds : \A i \in 1..Len(cSessions) : cSessions[i] # id
    /\ OpenSession("newSession",
                   CHOOSE id \in SessionIds :
                       /\ \A i \in 1..Len(cSessions) : cSessions[i] # id
                       /\ \A other \in SessionIds :
                             (\A i \in 1..Len(cSessions) : cSessions[i] # other) => id <= other,
                   rpcOk)

LoadSession(id, rpcOk) == OpenSession("loadSession", id, rpcOk)

\* The Session objects that a notification for session id sid is handed to:
\* the client calls the one registered closure, which compares the ids.
sessionUpdate(sid) ==
    IF sessionUpdateHandler # NoHandler /\ cSessions[sessionUpdateHandler] = sid
    THEN {sessionUpdateHandler}
    ELSE {}

\* The agent sends a session/update notification for one of its sessions.
Notification(sid) ==
    /\ isConnected
    /\ cInit = "ok"
    /\ \E i \in 1..Len(cSessions) : cSessions[i] = sid
    /\ Len(cNotes) < MaxNotes
    /\ cNotes' = Append(cNotes, [to |-> sid, handled |-> sessionUpdate(sid)])
    /\ UNCHANGED <<connection, cInit, sessionUpdateHandler, cSessions, cLast>>
    /\ UNCHANGED <<sessVars, detVars, stepVars, drvVars, qryVars, permVars, mapVars>>

\* disconnect()
Disconnect ==
    /\ cInit # "pending"
    /\ connection' = "null"
    /\ sessionUpdateHandler' = NoHandler
    /\ cInit' = "none"
    /\ UNCHANGED <<cSessions, cNotes, cLast>>
    /\ UNCHANGED <<sessVars, detVars, stepVars, drvVars, qryVars, permVars, mapVars>>

RestIdle ==
    ProbeIdle /\ DriverIdle /\ QueryIdle /\ PermissionIdle /\ MapperIdle /\ ClientIdle

\* ============================================================ Specifications

Init == SessionInit /\ DetectIdle /\ RestIdle

\* The session with a caller that keeps to one un-exhausted stream at a time.
Next ==
    \/ \E g \in Turns : PromptStart(g)
    \/ \E g \in Turns : ResumeUpdate(g)
    \/ \E g \in Turns : ConsumerNext(g)
    \/ \E g \in Turns : ResumeRpc(g)
    \/ \E g \in Turns : CollectReturn(g)
    \/ Notify
    \/ \E g \in Turns : \E r \in StopReasons : RpcResolve(g, r)
    \/ \E g \in Turns : \E c \in {"error", "closed"} : RpcReject(g, c)
    \/ ConnClose
    \/ AbortEvent
    \/ Cancel
    \/ SetMode

Spec == Init /\ [][Next]_vars

\* The event loop runs every queued continuation, and the connection's signal
\* dispatches "abort" once the transport has closed.
FairSpec ==
    /\ Spec
    /\ WF_vars(AbortEvent)
    /\ \A g \in Turns : WF_vars(ResumeUpdate(g))
    /\ \A g \in Turns : WF_vars(ResumeRpc(g))

\* The session with a caller that may begin a prompt() while an earlier stream
\* of the same session has not been exhausted.
NextOverlap ==
    \/ Next
    \/ \E g \in Turns : PromptOverlap(g)

SpecOverlap == Init /\ [][NextOverlap]_vars

\* Discovery over every combination of probe outcomes and credentials.
InitDetect ==
    /\ SessionInit
    /\ probe \in [BackendSet -> [Strategies -> BOOLEAN]]
    /\ cred \in [BackendSet -> BOOLEAN]
    /\ detectLog = <<>>
    /\ availLog = <<>>
    /\ RestIdle

NextDetect == Detect

SpecDetect == InitDetect /\ [][NextDetect]_vars

\* isBackendAvailable() over every combination of probe outcomes and credentials.
NextAvail == \E b \in BackendSet : CheckAvailable(b)

SpecAvail == InitDetect /\ [][NextAvail]_vars

\* One discovery call at a time, probe by probe, under every credential setting.
InitProbe ==
    /\ SessionInit
    /\ probe = [b \in BackendSet |-> [s \in Strategies |-> FALSE]]
    /\ cred \in [BackendSet -> BOOLEAN]
    /\ detectLog = <<>>
    /\ availLog = <<>>
    /\ RestIdle

NextProbe ==
    \/ \E op \in {"isBackendAvailable", "detectBackend"} :
           \E i \in 1..Len(Backends) : StartProbe(op, i)
    \/ \E code \in {0, 1} : \E hasOutput \in BOOLEAN : ChildExit(code, hasOutput)
    \/ ChildError
    \/ TimerFire
    \/ ProbeResume

SpecProbe == InitProbe /\ [][NextProbe]_vars

\* The event loop runs every timer callback and every continuation; nothing
\* obliges a spawned process to emit an event.
FairSpecProbe ==
    /\ SpecProbe
    /\ WF_vars(TimerFire)
    /\ WF_vars(ProbeResume)

\* One driver stream with its processes and its consumer.
NextDriver ==
    \/ DriverNext
    \/ DriverReturn
    \/ \E code \in {0, 1} : DriverProbeExit(code)
    \/ DriverProbeError
    \/ DriverProbeResume
    \/ \E kind \in LineKinds : StdoutLine(kind)
    \/ StdoutEnd
    \/ DriverChildExit
    \/ StreamResume
    \/ ExitResume

SpecDriver == Init /\ [][NextDriver]_vars

\* The event loop runs every continuation, the consumer keeps pulling, and the
\* output pipe of a process that has exited ends.  Nothing obliges a process to
\* exit or to write.
FairSpecDriver ==
    /\ SpecDriver
    /\ WF_vars(DriverProbeResume)
    /\ WF_vars(StreamResume)
    /\ WF_vars(ExitResume)
    /\ WF_vars(DriverNext)
    /\ WF_vars(StdoutEnd /\ dChild = "exited")

\* query() under every credential setting and every set of installed binaries
\* (found, when installed, by the PATH lookup of strategy 4).
InitQuery ==
    /\ SessionInit
    /\ probe \in {f \in [BackendSet -> [Strategies -> BOOLEAN]] :
                     \A b \in BackendSet : \A st \in Strategies \ {"direct"} : ~f[b][st]}
    /\ cred \in [BackendSet -> BOOLEAN]
    /\ detectLog = <<>>
    /\ availLog = <<>>
    /\ RestIdle

NextQuery ==
    \/ \E opt \in BackendSet \cup {"auto"} : Query(opt)
    \/ \E e \in UnifiedEvents : PullEvent(e)
    \/ PullEnd
    \/ ReadSessionId

SpecQuery == InitQuery /\ [][NextQuery]_vars

\* The client handler answering the agent's permission requests, one after another.
NextPermission ==
    \E options \in OptionLists, autoApprove \in BOOLEAN, handler \in Handlers :
        RequestPermission(options, autoApprove, handler)

SpecPermission == Init /\ [][NextPermission]_vars

\* One parsed line, any object its backend can write, through the backend's mapper.
NextMap ==
    \E b \in BackendSet : \E raw \in RawEvents(b) : mCount = 0 /\ MapEvent(b, raw)

SpecMap == Init /\ [][NextMap]_vars

\* A Codex stream of well-formed item events through mapCodexEvent.
NextItemStream == \E raw \in CodexRaw : MapItemEvent(raw)

SpecItemStream == Init /\ [][NextItemStream]_vars

\* One client: connecting, making sessions, receiving notifications, disconnecting.
NextClient ==
    \/ ConnectFailEarly
    \/ ConnectBegin
    \/ \E ok \in BOOLEAN : InitializeDone(ok)
    \/ \E rpcOk \in BOOLEAN : NewSession(rpcOk)
    \/ \E id \in SessionIds, rpcOk \in BOOLEAN : LoadSession(id, rpcOk)
    \/ \E sid \in SessionIds : Notification(sid)
    \/ Disconnect

SpecClient == Init /\ [][NextClient]_vars

\* ==================================================================== Claims

Blocked(g) == pc[g] = "await_update" /\ waitState[g] = "pending"

\* C1: in a turn whose RPC resolves, with the connection open and every
\* notification arriving between the start of the RPC and its resolution, the
\* exhausted stream has yielded exactly the arrived updates, each once, in
\* arrival order.
C1_AllArrivedYielded ==
    \A g \in Turns :
        (pc[g] = "done" /\ rpcResp[g] # "none" /\ ~late[g] /\ conn = "open")
            => yielded[g] = arrived[g]

\* C2: when the abort event finds a consumer blocked on the next update with an
\* empty buffer, the stream never throws and yields nothing further, the session
\* is closed, a later setMode() fails with the closed-connection error, and the
\* consumer eventually sees the stream done.
C2_Safe ==
    /\ \A g \in Turns :
          abortYielded[g] >= 0 =>
              /\ pc[g] # "thrown"
              /\ Len(yielded[g]) = abortYielded[g]
              /\ connectionClosed
    /\ (lastOp.op = "setMode" /\ lastOp.closed)
          => lastOp.outcome = "ConnectionClosedError"

C3_ClosureNeverThrows ==
    \A g \in Turns :
        rpcCause[g] = "closed" =>
            /\ pc[g] # "thrown"
            /\ pc[g] = "done" => (result[g] = lastStopReason /\ connectionClosed)

\* C4: at most one begun and un-exhausted prompt() stream per session.
C4_SingleActiveTurn ==
    Cardinality({g \in Turns : Active(g)}) <= 1

\* C5: a stream whose RPC resolved with stop reason r returns r, the consumer
\* loop (promptAndCollect) returns r as stopReason, and its updates are the
\* yielded updates in yield order.
C5_StopReasonFromRpc ==
    \A g \in Turns :
        /\ (pc[g] = "done" /\ rpcResp[g] # "none") => result[g] = rpcResp[g]
        /\ collectRet[g].kind = "ok" =>
              /\ collectRet[g].updates = yielded[g]
              /\ rpcResp[g] # "none" => collectRet[g].stopReason = rpcResp[g]

C5_Witness ==
    \E g \in Turns :
        /\ collectRet[g].kind = "ok"
        /\ rpcResp[g] = "cancelled"
        /\ Len(collectRet[g].updates) >= 2

\* C6: a stream fails with ConnectionClosedError only if the connection is closed.
C6_ClosedErrorOnlyWhenClosed ==
    \A g \in Turns : result[g] = "ConnectionClosedError" => conn = "closed"

C8_CancelIsAdvisory ==
    /\ [][(lastOp'.op = "cancel" /\ lastOp' # lastOp) =>
            UNCHANGED <<pendingUpdates, updateResolver, promptComplete,
                        lastStopReason, connectionClosed, pc, waitState,
                        waitVal, yieldVal, yielded, result, rpc>>]_vars
    /\ [](\A g \in Turns :
            (pc[g] \in {"done", "thrown"} /\ lastOp.op = "cancel")
                => (rpc[g] \in {"fulfilled", "rejected"} \/ connectionClosed))

C8_Witness ==
    \E g \in Turns :
        /\ lastOp = [op |-> "cancel", closed |-> FALSE, outcome |-> "sent"]
        /\ Blocked(g)
        /\ rpc[g] = "pending"
        /\ Len(yielded[g]) >= 1

\* Discovery claims.
Found(b) == \E s \in Strategies : probe[b][s]
Usable(b) == Found(b) /\ cred[b]
Rank(b) == CHOOSE i \in 1..Len(Backends) : Backends[i] = b
First(P(_)) == CHOOSE b \in BackendSet : P(b) /\ \A c \in BackendSet : P(c) => Rank(b) <= Rank(c)
FoundInOrder == SelectSeq(Backends, Found)

\* C9: whenever some backend has a runnable binary and a credential, every
\* detect() call returns the highest-priority such backend.
C9_HighestPriorityUsable ==
    \A i \in 1..Len(detectLog) :
        (\E b \in BackendSet : Usable(b)) =>
            (detectLog[i].kind = "ok" /\ detectLog[i].backend = First(Usable))

C11_RejectsOnMultiple ==
    \A i \in 1..Len(detectLog) :
        Cardinality({b \in BackendSet : Found(b)}) > 1 =>
            detectLog[i].kind = "MultipleBackendsFoundError"

\* C12: detect() fails with NoBackendFoundError exactly when no binary is found
\* or the selected backend's credential is unset; in the first case the message
\* says no agent binaries were found, in the second that the selected binary
\* was found but its API key is not configured, and the two messages differ.
C12_NoBinaries(r) ==
    /\ r.kind = "NoBackendFoundError"
    /\ detectMessage(r)[1] = "No agent binaries found. Please install one of: claude, codex, or gemini"

C12_KeyMissing(r) ==
    /\ r.kind = "NoBackendFoundError"
    /\ Len(detectMessage(r)) >= 3
    /\ detectMessage(r)[1] = "Found '"
    /\ detectMessage(r)[2] = First(Found)
    /\ detectMessage(r)[3] = "' binary but API key not configured. "

C12_DistinctFailureMessages ==
    \A i \in 1..Len(detectLog) :
        LET r == detectLog[i] IN
        /\ (~\E b \in BackendSet : Found(b)) => C12_NoBinaries(r)
        /\ ((\E b \in BackendSet : Found(b)) /\ ~cred[First(Found)]) => C12_KeyMissing(r)
        /\ ((\E b \in BackendSet : Found(b)) /\ cred[First(Found)]) => r.kind = "ok"
        /\ r.kind = "NoBackendFoundError" =>
              \A b \in BackendSet :
                  detectMessage([r EXCEPT !.reason = "no_binaries", !.backend = "none"])
                      # detectMessage([r EXCEPT !.reason = "key_missing", !.backend = b])

C12_Witness ==
    /\ Len(detectLog) >= 1
    /\ Found("codex") /\ ~Found("claude") /\ ~cred["codex"]
    /\ detectLog[1].kind = "NoBackendFoundError"
    /\ detectMessage(detectLog[1])[2] = "codex"

\* C13: isBackendAvailable(b) returns true exactly when some probing strategy
\* finds a runnable binary for b and b's credential variable is non-empty.
C13_AvailableIffBinaryAndCredential ==
    \A i \in 1..Len(availLog) :
        availLog[i].value = (Found(availLog[i].backend) /\ cred[availLog[i].backend])

C13_Witness ==
    /\ Len(availLog) >= 1
    /\ availLog[1] = [backend |-> "claude", value |-> TRUE]
    /\ ~probe["claude"]["known_path"] /\ ~probe["claude"]["which"]
    /\ ~probe["claude"]["command_v"] /\ probe["claude"]["direct"]

\* C14: a discovery call whose probe processes never emit an exit or error
\* event returns false (isBackendAvailable) or fails with "no binaries found"
\* (detect), and every discovery call that has begun eventually completes.
C14_HungMeansNotFound ==
    (pStage = "returned" /\ ~pEmitted) =>
        /\ pOp = "isBackendAvailable" => pRet = [kind |-> "bool", value |-> FALSE]
        /\ pOp = "detectBackend" =>
              (pRet.kind = "NoBackendFoundError" /\ pRet.reason = "no_binaries")

C14_ProbesAreTimeBounded ==
    /\ []C14_HungMeansNotFound
    /\ (pStage \notin {"idle", "returned"}) ~> (pStage = "returned")

C14_Witness ==
    /\ pStage = "returned"
    /\ ~pEmitted
    /\ pOp = "isBackendAvailable"
    /\ cred[Backends[pIdx]]
    /\ pRet = [kind |-> "bool", value |-> FALSE]

\* C15: a driver whose startup version probe never exits and never errors
\* eventually leaves its probing state.
C15_StartupProbeTimeBounded ==
    (dpc = "probing") ~> (dpc # "probing")

\* C18: once the backend process has exited, the driver's stream eventually
\* terminates.
C18_ExitedStreamTerminates ==
    (dChild = "exited") ~> (dpc \in {"done", "thrown"})

\* C19: whenever a driver stream that spawned its backend process has ended
\* (output exhausted, exception while streaming, or abandoned by the consumer),
\* the process has exited or has been sent a termination signal.
C19_EndedStreamSignalsChild ==
    (dpc \in {"await_exit", "done"} /\ dChild # "none")
        => (dChild = "exited" \/ dKilled)

C19_Witness ==
    /\ dpc = "done"
    /\ dChild = "running"
    /\ dKilled
    /\ ~dExitListener
    /\ dYielded = <<"event">>

\* C20: a driver generator that spawned its backend process reports completion
\* only after that process has exited.
C20_DoneOnlyAfterExit ==
    (dpc = "done" /\ dChild # "none") => dChild = "exited"

\* C16: a query() call with options.backend = b runs no discovery and resolves
\* with result.backend = b, whatever b's credential variable holds.
C16_ExplicitBackendUnchecked ==
    (qRes.kind # "none" /\ qRes.opt \in BackendSet) =>
        (qRes.kind = "ok" /\ qRes.backend = qRes.opt /\ ~qRes.detected)

\* C17: a read of result.sessionId leaves the event stream where it was; it
\* returns "unknown" while no session event has been pulled, and the session_id
\* of a pulled session event once there is one.
PulledSessionIds ==
    {eventsBuffer[i].session_id :
        i \in {j \in 1..Len(eventsBuffer) : eventsBuffer[j].type = "session"}}

C17_ReadValue ==
    qLast = "read" =>
        IF PulledSessionIds = {} THEN qRead = "unknown"
        ELSE qRead \in PulledSessionIds

C17_SessionIdNonBlocking ==
    /\ []C17_ReadValue
    /\ [][qLast' = "read" => UNCHANGED <<eventsBuffer, qDone, qRes>>]_vars

C17_Witness ==
    /\ qLast = "read"
    /\ qRead = "s1"
    /\ eventsBuffer = <<MessageEvent, SessionInitEvent>>
    /\ ~qDone

\* What a driver stream yields for the lines written, as origins <<line,
\* index>>: nothing for a malformed or unknown line, the mapper's events in the
\* mapper's order otherwise, and the error event <<line, 0>> at the first line
\* whose handling throws, after which nothing more.
RECURSIVE ExpectedTrace(_, _)
ExpectedTrace(lines, n) ==
    IF lines = <<>> THEN <<>>
    ELSE IF Head(lines) = "poison" THEN << <<n, 0>> >>
    ELSE (CASE Head(lines) = "event" -> << <<n, 1>> >>
            [] Head(lines) = "multi" -> << <<n, 1>>, <<n, 2>> >>
            [] OTHER -> <<>>) \o ExpectedTrace(Tail(lines), n + 1)

IsPrefix(a, b) == Len(a) <= Len(b) /\ a = SubSeq(b, 1, Len(a))

PoisonTaken == \E i \in 1..dTaken : dWritten[i] = "poison"

\* C21: the step that takes a line failing JSON.parse yields nothing and leaves
\* the generator in its loop; a stream read to the end of its output without an
\* exception has yielded the events of every other line and no error event.
C21_ExhaustedHasAll ==
    (dExitListener /\ ~PoisonTaken) =>
        /\ dTrace = ExpectedTrace(dWritten, 1)
        /\ \A i \in 1..Len(dYielded) : dYielded[i] = "event"

C21_MalformedLineSkipped ==
    /\ []C21_ExhaustedHasAll
    /\ [][(dTaken' = dTaken + 1 /\ dWritten[dTaken + 1] = "malformed")
              => UNCHANGED <<dpc, dYielded, dTrace>>]_vars

C21_Witness ==
    /\ dWritten = <<"malformed", "event">>
    /\ dTrace = << <<2, 1>> >>
    /\ dpc = "await_exit"

\* C22: once the handling of a line has thrown, the stream holds exactly one
\* error event of severity fatal, it is the last event yielded, and no later
\* line is taken; without such an exception no error event is yielded.
C22_OneFatalErrorLast ==
    LET errors == {i \in 1..Len(dYielded) : dYielded[i] = "error:fatal"} IN
    /\ PoisonTaken =>
          /\ Cardinality(errors) = 1
          /\ dYielded[Len(dYielded)] = "error:fatal"
          /\ dWritten[dTaken] = "poison"
          /\ \A i \in 1..(dTaken - 1) : dWritten[i] # "poison"
          /\ dpc \in {"yield_error", "await_exit", "done"}
    /\ errors # {} => PoisonTaken

C22_Witness ==
    /\ dWritten = <<"poison", "event">>
    /\ dLines = <<"event">>
    /\ dYielded = <<"error:fatal">>
    /\ dpc = "done"

\* C23: the backend process is spawned only once the version probe has exited
\* with code 0, and only once; a stream whose probe errored or exited non-zero
\* has thrown BackendNotAvailableError with nothing yielded and no process
\* spawned.
C23_Safe ==
    /\ dChild # "none" => dProbe = "exited_0"
    /\ (dProbe \in {"errored", "exited_nonzero"} /\ dpc # "probing") =>
          (dpc = "thrown" /\ dYielded = <<>> /\ dChild = "none")
    /\ dpc = "thrown" => dProbe \in {"errored", "exited_nonzero"}

C23_SpawnAfterProbe ==
    /\ []C23_Safe
    /\ [][(dChild' = "running" /\ dChild # "running") => dChild = "none"]_vars

C23_Witness ==
    /\ dpc = "thrown"
    /\ dProbe = "exited_nonzero"
    /\ dReq = "none"

\* C24: the events yielded so far are, in order and without repetition, an
\* initial part of the events of the lines written: line by line, and within
\* a line in the mapper's order.
C24_OrderPreserved ==
    IsPrefix(dTrace, ExpectedTrace(dWritten, 1))

C24_Witness ==
    /\ dWritten = <<"multi", "event">>
    /\ dTrace = << <<1, 1>>, <<1, 2>>, <<2, 1>> >>

\* ---- C25
\* The option of the request that the claim names for a set of kinds: the id
\* of the first option whose kind is one of them.
C25_IsFirstOfKind(id, kinds) ==
    /\ id \in 1..Len(rParams)
    /\ rParams[id] \in kinds
    /\ \A j \in 1..(id - 1) : rParams[j] \notin kinds

\* C25: every permission request is answered with one selected option id:
\* under autoApprove the first allow-kind option, without consulting the
\* handler; otherwise what the supplied handler returned; otherwise the first
\* reject-kind option.  (A handler that throws makes no choice and is left out.)
C25_AnswerByPrecedence ==
    rAnswer # NoAnswer =>
        IF rAuto
        THEN /\ rAnswer.kind = "selected"
             /\ ~rAnswer.consulted
             /\ C25_IsFirstOfKind(rAnswer.optionId, AllowKinds)
        ELSE IF rHandler.kind = "returns"
        THEN rAnswer.kind = "selected" /\ rAnswer.optionId = rHandler.optionId
        ELSE IF rHandler.kind = "throws"
        THEN TRUE
        ELSE /\ rAnswer.kind = "selected"
             /\ C25_IsFirstOfKind(rAnswer.optionId, RejectKinds)

\* ---- C26
\* The events of the stream so far that give item id a terminal status.
C26_Terminals(id) ==
    {i \in 1..Len(mLog) : mLog[i].action_id = id /\ mLog[i].status \in {"completed", "failed"}}

\* C26: in the unified events mapped from a sequence of well-formed raw item
\* events, no action_id has more than one event with a terminal status.
C26_OneTerminalPerAction ==
    \A id \in ActionIds : Cardinality(C26_Terminals(id)) <= 1

\* ---- C27
\* C27: a mapper returns a list of events for every object it is given, also
\* when a nested field it reads is absent; it never throws.
C27_MapperTotal == mOut.kind # "TypeError"

\* ---- C28
\* The raw events that report an error: an event of type error, or a Codex
\* item event whose item is of type error.
C28_ErrorLike ==
    /\ mCount > 0
    /\ \/ mIn.type = "error"
       \/ /\ mBackend = "codex"
          /\ mIn.type \in ItemEventTypes
          /\ mIn.item.type = "error"

C28_RawSeverity == IF mBackend = "gemini" THEN mIn.severity ELSE Undefined

\* C28: the error event mapped from an error-like raw event has severity
\* warning when the raw severity is exactly warning and error otherwise, and
\* no mapper output has severity fatal.
C28_SeverityFlattened ==
    \A i \in 1..Len(mOut.events) :
        mOut.events[i].type = "error" =>
            /\ mOut.events[i].severity # "fatal"
            /\ C28_ErrorLike =>
                  mOut.events[i].severity =
                      IF C28_RawSeverity = "warning" THEN "warning" ELSE "error"

\* ---- C29
\* The last raw event had a type its mapper does not know, or was a Codex item
\* event with an item of a type the mapper does not know.
C29_Unrecognized ==
    /\ mCount > 0
    /\ \/ mIn.type = Unrecognized
       \/ /\ mBackend = "codex"
          /\ mIn.type \in ItemEventTypes
          /\ mIn.item # NoItem
          /\ mIn.item.type = Unrecognized

\* C29: an object of an unrecognized type (or a Codex item event with an item
\* of an unrecognized type) maps to the empty list, and the mapper does not throw.
C29_UnknownMapsToNothing ==
    C29_Unrecognized => mOut.kind = "ok" /\ mOut.events = <<>>

C29_Witness ==
    /\ C29_Unrecognized
    /\ mBackend = "codex"
    /\ mIn.type = "item.completed"
    /\ mOut = Ok(<<>>)

\* ---- C30
\* The last raw event was a Codex item event with a file_change item that has
\* a changes array.
C30_FileChange ==
    /\ mBackend = "codex"
    /\ mIn.type \in ItemEventTypes
    /\ mIn.item.type = "file_change"
    /\ mIn.item.hasChanges

\* C30: a file_change item with K changes maps to exactly K action events of
\* subtype file_change, the i-th carrying the i-th change's path and kind, the
\* item's id as action_id, and the status got from the item's status
\* (completed for completed, failed otherwise).
C30_OneEventPerChange ==
    C30_FileChange =>
        /\ mOut.kind = "ok"
        /\ Len(mOut.events) = Len(mIn.item.changes)
        /\ \A i \in 1..Len(mIn.item.changes) :
              /\ mOut.events[i].type = "action"
              /\ mOut.events[i].subtype = "file_change"
              /\ mOut.events[i].file_path = mIn.item.changes[i].path
              /\ mOut.events[i].change_type = mIn.item.changes[i].kind
              /\ mOut.events[i].action_id = mIn.item.id
              /\ mOut.events[i].status =
                    IF mIn.item.status = "completed" THEN "completed" ELSE "failed"

C30_Witness ==
    /\ C30_FileChange
    /\ Len(mIn.item.changes) = 2
    /\ mIn.item.changes[1] # mIn.item.changes[2]
    /\ mIn.item.status = "completed"
    /\ Len(mOut.events) = 2
    /\ mOut.events[1].file_path = "f2"
    /\ mOut.events[2].file_path = "f1"

\* ---- C31
\* The last raw event was a result (completion) event that its mapper accepted.
ResultMapped ==
    /\ mCount > 0
    /\ mBackend \in {"gemini", "claude"}
    /\ mIn.type = "result"
    /\ mOut.kind = "ok"

\* The raw completion event carries usage statistics.
C31_HasStatistics ==
    IF mBackend = "gemini" THEN mIn.status # "error" /\ mIn.hasStats
    ELSE mIn.hasModelUsage

C31_Metrics == {i \in 1..Len(mOut.events) : mOut.events[i].type = "metrics"}

\* C31: a completion event without statistics produces no metrics event, and
\* one with statistics produces a metrics event with at least one populated
\* field; no metrics event without data is ever emitted.
C31_MetricsOnlyWithData ==
    /\ \A i \in C31_Metrics : mOut.events[i].data = "populated"
    /\ ResultMapped =>
          IF C31_HasStatistics THEN C31_Metrics # {} ELSE C31_Metrics = {}

\* ---- C32
C32_SessionEnds ==
    {i \in 1..Len(mOut.events) :
        mOut.events[i].type = "session" /\ mOut.events[i].subtype = "end"}

\* The session identifier the raw result event carries ("" or undefined: none).
C32_RawSessionId == IF mBackend = "claude" THEN mIn.sessionId ELSE Undefined

\* C32: the session/end event mapped from a result event has session_id
\* "unknown" when the raw event carries no session identifier, and the raw
\* identifier unchanged when it carries one.
C32_UnknownSentinel ==
    ResultMapped =>
        /\ C32_SessionEnds # {}
        /\ \A i \in C32_SessionEnds :
              mOut.events[i].session_id =
                  IF C32_RawSessionId \in {Undefined, ""} THEN "unknown"
                  ELSE C32_RawSessionId

C32_Witness ==
    /\ ResultMapped
    /\ mBackend = "claude"
    /\ mIn.sessionId = Undefined
    /\ \E i \in C32_SessionEnds : mOut.events[i].session_id = "unknown"

\* ---- C34
\* The last raw event was a Codex item event with an item of type t.
C34_ItemOfType(t) ==
    /\ mCount > 0
    /\ mBackend = "codex"
    /\ mIn.type \in ItemEventTypes
    /\ mIn.item.type = t

\* C34: command_execution and mcp_tool_call actions carry the item's own
\* status (in_progress, completed, failed; anything else gives in_progress)
\* whatever the enclosing event is; web_search actions carry the status of the
\* enclosing event (started, in_progress, and completed unless the item failed).
C34_StatusByFamily ==
    /\ C34_ItemOfType("command_execution") \/ C34_ItemOfType("mcp_tool_call") =>
          /\ mOut.kind = "ok"
          /\ Len(mOut.events) = 1
          /\ mOut.events[1].status =
                IF mIn.item.status \in {"in_progress", "completed", "failed"}
                THEN mIn.item.status ELSE "in_progress"
    /\ C34_ItemOfType("web_search") =>
          /\ mOut.kind = "ok"
          /\ Len(mOut.events) = 1
          /\ mOut.events[1].status =
                CASE mIn.type = "item.started" -> "started"
                  [] mIn.type = "item.updated" -> "in_progress"
                  [] mIn.type = "item.completed" ->
                        IF mIn.item.status = "failed" THEN "failed" ELSE "completed"

C34_Witness ==
    /\ C34_ItemOfType("command_execution")
    /\ mIn.type = "item.started"
    /\ mIn.item.status = "completed"
    /\ mOut.events[1].status = "completed"

\* ---- C40
C40_Turns == {i \in 1..Len(mOut.events) : mOut.events[i].type = "turn"}

\* C40: every raw result event that a mapper accepts is mapped to exactly one
\* turn event (completed or failed), with or without usage statistics.
C40_OneTurnPerResult ==
    ResultMapped =>
        /\ Cardinality(C40_Turns) = 1
        /\ \A i \in C40_Turns : mOut.events[i].subtype \in {"completed", "failed"}

\* ---- C35
\* C35: with autoApprove off and no handler, the option selected for a request
\* that offers at least one option is never of an allow kind.
C35_DefaultNeverAllows ==
    (/\ rAnswer # NoAnswer
     /\ ~rAuto
     /\ rHandler.kind = "none"
     /\ rParams # <<>>)
        => rAnswer.kind = "selected" /\ rParams[rAnswer.optionId] \notin AllowKinds

\* ---- C39
\* C39: once a read of result.sessionId has returned a value other than
\* "unknown", every later read returns that value, whatever the stream yields
\* in between.
C39_SessionIdStable ==
    [][(qLast' = "read" /\ qRead \notin {"none", "unknown"}) => qRead' = qRead]_vars

\* ---- C33
\* Notifications are numbered in the order of their arrival; those that
\* arrived since turn g began are turnStart[g] .. nextUpd - 1.
C33_Ordered(g) ==
    \A i, j \in 1..Len(yielded[g]) : i < j => yielded[g][i] < yielded[g][j]

\* C33: what a prompt() stream has yielded is, in arrival order and without
\* repetition, a part of the notifications that arrived during its turn.
C33_OrderedNoDuplicates ==
    \A g \in Turns :
        /\ C33_Ordered(g)
        /\ \A i \in 1..Len(yielded[g]) :
              yielded[g][i] >= turnStart[g] /\ yielded[g][i] < nextUpd

C33_Witness == yielded[1] = <<1, 2, 3>> /\ pc[1] = "done"

\* ---- C38
\* C38: no prompt() stream yields an update that arrived before its prompt()
\* began to run: the buffer is emptied when the turn begins.
C38_NoStaleUpdates ==
    \A g \in Turns : \A i \in 1..Len(yielded[g]) : yielded[g][i] >= turnStart[g]

\* update 1 arrived before the second turn began, update 2 after, and the
\* second turn's stream has yielded update 2
C38_Witness ==
    /\ turnStart[2] = 2
    /\ yielded[2] = <<2>>

\* ---- C36
\* C36: a notification for session S is handed to the update handling of a
\* Session object of S, and to no Session object of another session, whatever
\* the order in which the sessions were made.
C36_RoutedToOwnSession ==
    \A n \in 1..Len(cNotes) :
        /\ cNotes[n].handled # {}
        /\ \A o \in cNotes[n].handled : cSessions[o] = cNotes[n].to

\* ---- C37
\* C37: isConnected holds only when the last connect() has completed with a
\* successful initialize exchange; after a failed connect() and after
\* disconnect() it is false, and newSession() then throws NotConnectedError.
C37_ConnectedIffInitialized ==
    /\ isConnected => cInit = "ok"
    /\ (cLast.op = "newSession" /\ cLast.init # "ok") => cLast.outcome = "NotConnectedError"
====
